---- MODULE Spec2Model ----
(***************************************************************************)
(* The document processing pipeline of oatodify: the Celery tasks          *)
(* process_document and approve_document (tasks/document_processor.py),    *)
(* the category-aware analyzer (services/ai_analyzer.py) and the operator  *)
(* routes that reset a document to PENDING and submit a review             *)
(* (api/routes.py).                                                        *)
(*                                                                         *)
(* Every database commit and every external call of a task is one step,   *)
(* so that a task interleaves with the routes and with another worker as   *)
(* it does on the real database.  The program counter of a worker names    *)
(* the source line of document_processor.py it is about to execute.        *)
(*                                                                         *)
(* Spec runs the tasks on one worker process, SpecRace on two,             *)
(* SpecAnalyzer calls the analyzer on its own over all its inputs, and     *)
(* SpecSweep runs the batch scan and the version-deduplication sweep       *)
(* (services/version_manager.py) over a table of three records,            *)
(* SpecExpiry the expiration sweep over a table of two, and SpecSweeps     *)
(* both sweeps over either table.  SpecLive is Spec with a worker that     *)
(* keeps taking the next step of its task, SpecSweepRace runs the two      *)
(* sweeps next to the operator route, and SpecReview runs reviews on two   *)
(* workers from the table a process run leaves for review.                 *)
(***************************************************************************)
EXTENDS Integers, Sequences, FiniteSets, Bags, TLC

\* ------------------------------------------------------------- bounds
\* tasks the queue hands to workers in one behaviour
MaxDeliveries == 2
\* blacklist keywords the rule-based analyzer may find in one filename
MaxKeywordHits == 2
\* sweep task runs
MaxSweeps == 1

\* ------------------------------------------------- program constants
max_retries == 3
RuleBaseConfidence == 60
DefaultAutoApproveThreshold == 80
DefaultMinConfidence == 40
ProcessorDefaultMinConfidence == 70
ProcessorDefaultAutoApprove == 90
\* batch_process_documents(limit = 10), the sweeps' limit = 50
BatchLimit == 10
DedupLimit == 50
\* a nullable Integer column holding NULL
NoDocumentId == 0
NoScore == 0 - 1

Workers == {"w1", "w2"}
\* "f1" has a row in oa_file_info, "f0" has none
Files == {"f1"}
FileIds == Files \cup {"f0"}

\* models.ProcessingStatus
PENDING == "PENDING"
DOWNLOADING == "DOWNLOADING"
DECRYPTING == "DECRYPTING"
PARSING == "PARSING"
ANALYZING == "ANALYZING"
AWAITING_APPROVAL == "AWAITING_APPROVAL"
COMPLETED == "COMPLETED"
FAILED == "FAILED"
SKIPPED == "SKIPPED"
ProcessingStatus ==
    {PENDING, DOWNLOADING, DECRYPTING, PARSING, ANALYZING,
     AWAITING_APPROVAL, COMPLETED, FAILED, SKIPPED}
InFlight == {DOWNLOADING, DECRYPTING, PARSING, ANALYZING}
Terminal == {AWAITING_APPROVAL, COMPLETED, FAILED, SKIPPED}

\* ------------------------------------------------- python dictionaries
EmptyDict == [k \in {} |-> 0]
DictGet(d, k, default) == IF k \in DOMAIN d THEN d[k] ELSE default
Max(a, b) == IF a >= b THEN a ELSE b
Min(a, b) == IF a <= b THEN a ELSE b

\* JSON / Python values a field of the AI reply may hold.  "True"/"False"
\* are the booleans, "str" a non-empty string, "None" JSON null.
PyBool == {"True", "False"}
Truthy(v) == v \in {"True", "str"}

VARIABLES
    files,       \* table oa_file_info: file id -> row
    logs,        \* table processing_logs: a bag of rows
    mapping,     \* the active DocumentCategoryMapping of the category, or EmptyDict
    knowledge_bases, \* table knowledge_bases: the status of each row
    client,      \* AIAnalyzer.client is initialised
    pool,        \* the worker processes that run
    queue,       \* Celery queue: the retries waiting for delivery
    deliveries,  \* tasks handed to workers so far
    pc,          \* per worker: the line it is about to execute
    task,        \* per worker: the task it runs
    sess,        \* per worker: the SQLAlchemy session object file_info
    loc,         \* per worker: local variables of the task function
    ret,         \* per worker: what the last finished task returned
    wrote,       \* per worker: what the running task wrote so far, in order
    kb,          \* the external knowledge base: live documents, next id
    published,   \* the publish calls made: file, the row's document_id then,
                 \* and the knowledge base of the service (0: the default one)
    call,        \* the analyzer call made on its own: inputs, AI reply, result
    dialect,     \* the database behind DATABASE_URL
    sweep        \* the sweep task: its position, locals and statistics

vars == <<files, logs, mapping, knowledge_bases, client, pool, queue, deliveries, pc, task, sess, loc, ret, wrote, kb, published, call, dialect, sweep>>

\* ------------------------------------------------------------ analyzer
\* What the rule-based analyzer looks at in (content, filename): the number
\* of blacklist keywords in the filename, len(content.strip()) against 100
\* and 50000, fewer than 5 non-empty lines, a sensitive keyword.
RuleInputs ==
    [hits : 0..MaxKeywordHits, len : {"short", "normal", "long"},
     few_lines : BOOLEAN, sensitive : BOOLEAN]

\* confidence = max(confidence - 20, 10), once per blacklist keyword found
RECURSIVE BlacklistConfidence(_, _)
BlacklistConfidence(confidence, hits) ==
    IF hits = 0 THEN confidence
    ELSE BlacklistConfidence(Max(confidence - 20, 10), hits - 1)

\* mutant: a rule-based analysis as confident as an AI answer can be
rule_based_analysis_confident(inp) ==
    LET c1 == BlacklistConfidence(100, inp.hits)
        c2 == CASE inp.len = "short" -> Max(c1 - 30, 10)
                [] inp.len = "long" -> Max(c1 - 10, 30)
                [] OTHER -> c1
        c3 == IF inp.sensitive THEN Max(c2 - 25, 10) ELSE c2
        suitable == inp.hits = 0 /\ inp.len # "short" /\ ~inp.few_lines
                    /\ ~inp.sensitive
    IN  [suitable_for_kb |-> IF suitable THEN "True" ELSE "False",
         confidence_score |-> c3,
         analysis_method |-> "rule_based",
         threshold_reason |-> FALSE]

\* AIAnalyzer._rule_based_analysis: the result carries no processor_config
rule_based_analysis(inp) ==
    LET c1 == BlacklistConfidence(RuleBaseConfidence, inp.hits)
        c2 == CASE inp.len = "short" -> Max(c1 - 30, 10)
                [] inp.len = "long" -> Max(c1 - 10, 30)
                [] OTHER -> c1
        c3 == IF inp.sensitive THEN Max(c2 - 25, 10) ELSE c2
        suitable == inp.hits = 0 /\ inp.len # "short" /\ ~inp.few_lines
                    /\ ~inp.sensitive
    IN  [suitable_for_kb |-> IF suitable THEN "True" ELSE "False",
         confidence_score |-> c3,
         analysis_method |-> "rule_based",
         threshold_reason |-> FALSE]

\* What the AI capability does on one call: it throws, or answers text
\* that is no JSON ("garbage"), a JSON object, or a JSON object inside a
\* markdown fence ("fenced"); an object's suitable_for_kb is a JSON value or missing,
\* its confidence_score an integer, missing, or not a number, its reasons
\* a list (or missing) or another JSON value.
ConfidenceValues == {0 - 5, 20, 35, 60, 85, 95, 150}
AIOutcomes ==
    [kind : {"json", "fenced"},
     suitable : PyBool \cup {"str", "None", "missing"},
     ck : {"int"}, conf : ConfidenceValues, reasons : {"list", "nonlist"}]
    \cup [kind : {"json"}, suitable : PyBool \cup {"str", "None", "missing"},
          ck : {"missing", "nonnum"}, conf : {0}, reasons : {"list", "nonlist"}]
    \cup [kind : {"throw", "garbage", "fenced"}, suitable : {"missing"},
          ck : {"missing"}, conf : {0}, reasons : {"list"}]

\* DocumentProcessor.__init__: thresholds of the mapping, 70 / 90 without one
DocumentProcessor(mapping_config) ==
    [min_confidence |->
        DictGet(mapping_config, "min_confidence_score", ProcessorDefaultMinConfidence),
     auto_approve_threshold |->
        DictGet(mapping_config, "auto_approve_threshold", ProcessorDefaultAutoApprove)]

\* AIAnalyzer.get_document_processor: the active mapping's configuration, or
\* an empty one.  The per-process cache holds what this computes: no code
\* of the repository changes a mapping.
get_document_processor(m) ==
    IF m # EmptyDict
    THEN DocumentProcessor([min_confidence_score |-> m.min_confidence_score,
                            auto_approve_threshold |-> m.auto_approve_threshold])
    ELSE DocumentProcessor(EmptyDict)

\* models.KnowledgeBaseStatus, and the databases config.py / database.py
\* provide for
KnowledgeBaseStatus == {"ACTIVE", "INACTIVE", "MAINTENANCE"}
Dialects == {"postgresql", "sqlite"}

\* get_target_knowledge_base did not return: its query raised
QueryRaised == 0 - 1

\* AIAnalyzer.get_target_knowledge_base: the mapping's knowledge base when
\* its status equals 'active', else the first row whose status equals
\* 'active'; 0 is None.  The rows hold KnowledgeBaseStatus members.  The
\* second comparison runs in the database: PostgreSQL rejects a literal
\* that is no label of the enum type, SQLite compares strings.
StatusIsActive(status) == status = "active"
get_target_knowledge_base(m, kbs, d) ==
    IF m # EmptyDict /\ StatusIsActive(kbs[m.knowledge_base_id])
    THEN m.knowledge_base_id
    ELSE IF d = "postgresql" /\ "active" \notin KnowledgeBaseStatus
         THEN QueryRaised
         ELSE IF \E k \in DOMAIN kbs : StatusIsActive(kbs[k])
              THEN CHOOSE k \in DOMAIN kbs :
                      StatusIsActive(kbs[k])
                      /\ \A j \in DOMAIN kbs : StatusIsActive(kbs[j]) => k <= j
              ELSE 0

\* json.loads(content_result): only a bare JSON text parses
JsonLoads(ai) == ai.kind = "json"

\* max(0, min(100, result.get("confidence_score", 0)))
ClampConfidence(ai) ==
    IF ai.ck = "missing" THEN 0 ELSE Max(0, Min(100, ai.conf))

\* line 447: analysis_result["reasons"].append(...) runs when the confidence
\* is below the processor's minimum, and raises when reasons is no list
AppendReasonRaises(ai, processor) ==
    /\ ClampConfidence(ai) < processor.min_confidence
    /\ ai.reasons = "nonlist"

\* lines 415-447: the normalised result of a parsed AI reply
ai_analysis(ai, processor, category) ==
    LET confidence == ClampConfidence(ai)
        reported == IF ai.suitable = "missing" THEN "False" ELSE ai.suitable
        low == confidence < processor.min_confidence
    IN  [suitable_for_kb |-> IF low THEN "False" ELSE reported,
         confidence_score |-> confidence,
         analysis_method |-> "ai",
         threshold_reason |-> low,
         processor_config |->
            [category |-> category,
             min_confidence |-> processor.min_confidence,
             auto_approve_threshold |-> processor.auto_approve_threshold]]

\* AIAnalyzer.analyze_document_content -> <<analysis_result, target_kb>>.
\* category is "missing", "invalid" or a BusinessCategory value.
analyze_document_content(category, inp, ai, has_client, m, kbs, d) ==
    IF category \in {"missing", "invalid"}
    THEN <<rule_based_analysis(inp), 0>>
    ELSE LET processor == get_document_processor(m)
             target_kb == get_target_knowledge_base(m, kbs, d)
         IN  IF target_kb = QueryRaised
             THEN <<rule_based_analysis(inp), 0>>
             ELSE IF ~has_client
             THEN <<rule_based_analysis(inp), target_kb>>
             ELSE IF \/ ai.kind = "throw"
                     \/ ~JsonLoads(ai)
                     \/ ai.ck = "nonnum"
                     \/ AppendReasonRaises(ai, processor)
                  THEN <<rule_based_analysis(inp), 0>>
                  ELSE <<ai_analysis(ai, processor, category), target_kb>>

\* ------------------------------------------------------------- database
\* A new row of oa_file_info (models.OAFileInfo defaults), status PENDING.
NewFile(attrs) ==
    [processing_status |-> PENDING,
     processing_message |-> "",
     ai_analysis_result |-> "None",
     ai_confidence_score |-> NoScore,
     should_add_to_kb |-> "None",
     document_id |-> NoDocumentId,
     error_count |-> 0,
     last_error |-> "",
     imagefilename |-> attrs.imagefilename,
     is_zw |-> attrs.is_zw,
     is_zip |-> attrs.is_zip,
     asecode |-> attrs.asecode,
     business_category |-> attrs.business_category]

\* the imported documents the model runs on
MainTextFile ==
    [imagefilename |-> <<"<", "A", ">">>, is_zw |-> TRUE, is_zip |-> TRUE, asecode |-> TRUE,
     business_category |-> "HEADQUARTERS_ISSUE"]
AttachmentFile ==
    [imagefilename |-> <<"A">>, is_zw |-> FALSE, is_zip |-> FALSE, asecode |-> FALSE,
     business_category |-> "BRANCH_ISSUE"]

\* the category mappings the model runs on: none, or one active mapping
LowMapping ==
    [knowledge_base_id |-> 1, min_confidence_score |-> 30,
     auto_approve_threshold |-> 90]
HighMapping ==
    [knowledge_base_id |-> 1, min_confidence_score |-> 70,
     auto_approve_threshold |-> 80]
MappingFixtures == {EmptyDict, LowMapping, HighMapping}

\* the installations the pipeline is run on
\* the rows of table knowledge_bases: both in service, or none
ActiveKnowledgeBases == <<"ACTIVE", "ACTIVE">>
NoActiveKnowledgeBase == <<"INACTIVE", "MAINTENANCE">>
Scenarios ==
    {[file |-> MainTextFile, mapping |-> EmptyDict, client |-> TRUE,
      dialect |-> "sqlite", knowledge_bases |-> ActiveKnowledgeBases],
     [file |-> MainTextFile, mapping |-> LowMapping, client |-> TRUE,
      dialect |-> "sqlite", knowledge_bases |-> ActiveKnowledgeBases],
     [file |-> MainTextFile, mapping |-> HighMapping, client |-> TRUE,
      dialect |-> "sqlite", knowledge_bases |-> ActiveKnowledgeBases],
     [file |-> MainTextFile, mapping |-> LowMapping, client |-> TRUE,
      dialect |-> "postgresql", knowledge_bases |-> ActiveKnowledgeBases],
     [file |-> AttachmentFile, mapping |-> EmptyDict, client |-> FALSE,
      dialect |-> "sqlite", knowledge_bases |-> ActiveKnowledgeBases],
     [file |-> MainTextFile, mapping |-> EmptyDict, client |-> TRUE,
      dialect |-> "sqlite", knowledge_bases |-> NoActiveKnowledgeBase]}

\* db.commit() of a session: the pending attribute changes reach the row
Merge(row, dirty) ==
    [k \in DOMAIN row |-> IF k \in DOMAIN dirty THEN dirty[k] ELSE row[k]]

\* a dictionary with one more key set
DictSet(d, k, v) ==
    [x \in DOMAIN d \cup {k} |-> IF x = k THEN v ELSE d[x]]

\* update_file_status: its own session, one commit; nothing without a row
update_file_status(tbl, file_id, status, message) ==
    IF file_id \in DOMAIN tbl
    THEN [tbl EXCEPT ![file_id].processing_status = status,
                     ![file_id].processing_message = message]
    ELSE tbl

\* a log that keeps one row per file and step, replacing the older one
log_processing_step_upsert(tbl, file_id, step, status, has_duration) ==
    LET kept == {r \in BagToSet(tbl) : r.file_id # file_id \/ r.step # step}
    IN  [r \in kept |-> tbl[r]]
           (+) SetToBag({[file_id |-> file_id, step |-> step,
                          status |-> status, has_duration |-> has_duration]})

\* log_processing_step: one new row of processing_logs
log_processing_step(tbl, file_id, step, status, has_duration) ==
    tbl (+) SetToBag({[file_id |-> file_id, step |-> step, status |-> status,
                       has_duration |-> has_duration]})

\* a guard that also lets a FAILED row through
can_process_file_or_failed(tbl, file_id) ==
    /\ file_id \in DOMAIN tbl
    /\ tbl[file_id].processing_status \in {PENDING, FAILED}

\* can_process_file: the row exists and is PENDING
can_process_file(tbl, file_id) ==
    /\ file_id \in DOMAIN tbl
    /\ tbl[file_id].processing_status = PENDING

\* ------------------------------------------------------ worker state
NoTask == [file_id |-> "f0", retries |-> 0, kind |-> "none", approved |-> FALSE]
NoSession == [loaded |-> FALSE, expired |-> FALSE, row |-> EmptyDict,
              dirty |-> EmptyDict]
NoLocals == [stage |-> "", raising |-> FALSE, analysis_result |-> EmptyDict,
             target_knowledge_base |-> 0]
NoReturn == [kind |-> "none", success |-> FALSE, status |-> "", message |-> ""]

\* what a task returns: {'success': ..., 'message' / 'error': ...}, or the
\* Retry that self.retry raises
Returned(success, status, message) ==
    [kind |-> "return", success |-> success, status |-> status, message |-> message]
Retried ==
    [kind |-> "retry", success |-> FALSE, status |-> "", message |-> "exception"]

\* what a running task did, appended to wrote[w]
StatusWrite(status) == [op |-> "status", step |-> "", status |-> status]
LogWrite(step, status) == [op |-> "log", step |-> step, status |-> status]
CallMade(what) == [op |-> "call", step |-> what, status |-> ""]
CommitMade == [op |-> "commit", step |-> "", status |-> ""]

\* reading an attribute of the session object file_info: a pending change,
\* else the row as loaded, reloaded first when a commit expired it
ReadAttr(w, k) ==
    IF k \in DOMAIN sess[w].dirty THEN sess[w].dirty[k]
    ELSE IF sess[w].expired THEN files[task[w].file_id][k]
    ELSE sess[w].row[k]

\* the session after reading an attribute: an expired object is reloaded
AfterRead(w) ==
    IF sess[w].expired
    THEN [sess[w] EXCEPT !.row = files[task[w].file_id], !.expired = FALSE]
    ELSE sess[w]

\* no analyzer call made on its own
NoCall == [made |-> FALSE]

\* no sweep task running, none run so far
NoStats == [processed |-> 0, duplicates_found |-> 0, deleted |-> 0,
            errors |-> 0, details |-> 0]
NoSweep ==
    [pc |-> "idle", runs |-> 0, batch |-> {}, cur |-> "f0", title |-> <<>>,
     group |-> {}, previews |-> {}, compared |-> 0, ai_calls |-> 0,
     prompt |-> {}, latest |-> "f0", old |-> <<>>, aborted |-> FALSE,
     last_delete |-> [file |-> "f0", outcome |-> "", done |-> FALSE],
     stats |-> NoStats,
     \* the expiration sweep: its limit, the size of its batch, the last
     \* clock reading and the verdict on the current document
     limit |-> 0, size |-> 0, now |-> [day |-> 0, tick |-> 0],
     info |-> [text |-> "", fmt |-> "none", day |-> 0], expired_by |-> "",
     preview |-> 0, no_preview |-> FALSE, ai_answer |-> ""]

InitBase ==
    /\ \E s \in Scenarios :
        /\ files = [f \in Files |-> NewFile(s.file)]
        /\ mapping = s.mapping
        /\ client = s.client
        /\ dialect = s.dialect
        /\ knowledge_bases = s.knowledge_bases
    /\ logs = EmptyBag
    /\ queue = {}
    /\ deliveries = 0
    /\ pc = [w \in Workers |-> "idle"]
    /\ task = [w \in Workers |-> NoTask]
    /\ sess = [w \in Workers |-> NoSession]
    /\ loc = [w \in Workers |-> NoLocals]
    /\ ret = [w \in Workers |-> NoReturn]
    /\ wrote = [w \in Workers |-> <<>>]
    /\ kb = [live |-> {}, next_id |-> 1]
    /\ published = {}
    /\ call = NoCall
    /\ sweep = NoSweep

\* one worker process (celery worker --concurrency=1)
Init == InitBase /\ pool = {"w1"}

\* a pool of two worker processes
InitRace == InitBase /\ pool = Workers

\* what no task and no route changes: the configuration, the pool, the
\* record of the analyzer call made on its own, and the sweep task
config_vars == <<mapping, knowledge_bases, client, pool, call, dialect, sweep>>

\* ------------------------------------------------------- task plumbing
Did(w, items) == wrote' = [wrote EXCEPT ![w] = @ \o items]

\* the task function returns (or raises Retry): the worker is free again
Finish(w, r) ==
    /\ pc' = [pc EXCEPT ![w] = "idle"]
    /\ ret' = [ret EXCEPT ![w] = r]
    /\ task' = [task EXCEPT ![w] = NoTask]
    /\ sess' = [sess EXCEPT ![w] = NoSession]
    /\ loc' = [loc EXCEPT ![w] = NoLocals]
    /\ wrote' = [wrote EXCEPT ![w] = <<>>]

Goto(w, label) ==
    /\ pc' = [pc EXCEPT ![w] = label]
    /\ UNCHANGED <<ret, task>>

ProcessTask(f, retries) ==
    [file_id |-> f, retries |-> retries, kind |-> "process", approved |-> FALSE]

\* routes.process_file: POST /files/{file_id}/process resets the row to
\* PENDING and submits the task (Deliver hands out a first run of any id)
process_file(f) ==
    /\ f \in DOMAIN files
    /\ files[f].is_zw
    /\ files[f].processing_status \notin InFlight
    /\ files' = [files EXCEPT ![f].processing_status = PENDING,
                              ![f].processing_message = "manual"]
    /\ UNCHANGED <<logs, config_vars, queue, deliveries, pc, task, sess, loc, ret,
                   wrote, kb, published>>

\* The queue hands a task to a free worker of the pool.  A first run
\* process_document.delay(file_id) can be submitted for any id at any time
\* (the submission surface, the batch scan, the operator route), and
\* at-least-once delivery hands the same message out again; the queue
\* variable holds the retries that self.retry scheduled.
Deliver(w) ==
    /\ w \in pool
    /\ pc[w] = "idle"
    /\ deliveries < MaxDeliveries
    /\ deliveries' = deliveries + 1
    /\ \E t \in queue \cup {ProcessTask(f, 0) : f \in FileIds} :
        /\ queue' \in {queue, queue \ {t}}
        /\ task' = [task EXCEPT ![w] = t]
        /\ pc' = [pc EXCEPT ![w] = IF t.kind = "process" THEN "L113" ELSE "L478"]
    /\ ret' = [ret EXCEPT ![w] = NoReturn]
    /\ UNCHANGED <<files, logs, config_vars, sess, loc, wrote, kb, published>>

\* ---------------------------------------------------- process_document
\* lines 113-115: the eligibility guard
CanProcessFile(w) ==
    /\ pc[w] = "L113"
    /\ IF can_process_file(files, task[w].file_id)
       THEN Goto(w, "L119") /\ UNCHANGED <<sess, loc, wrote>>
       ELSE Finish(w, Returned(FALSE, "", "not_processable"))
    /\ UNCHANGED <<files, logs, config_vars, queue, deliveries,
                   kb, published>>

\* lines 118-123: the task's session loads file_info
LoadFileInfo(w) ==
    /\ pc[w] = "L119"
    /\ IF task[w].file_id \in DOMAIN files
       THEN /\ Goto(w, "L144")
            /\ sess' = [sess EXCEPT ![w] =
                  [loaded |-> TRUE, expired |-> FALSE,
                   row |-> files[task[w].file_id], dirty |-> EmptyDict]]
            /\ UNCHANGED <<loc, wrote>>
       ELSE Finish(w, Returned(FALSE, "", "no_file_info"))
    /\ UNCHANGED <<files, logs, config_vars, queue, deliveries,
                   kb, published>>

\* lines 144, 164, 187, 233: the status of the stage that starts next
StageOf(label) ==
    CASE label = "L144" -> [status |-> DOWNLOADING, next |-> "L149"]
      [] label = "L164" -> [status |-> DECRYPTING, next |-> "L170"]
      [] label = "L187" -> [status |-> PARSING, next |-> "L199"]
      [] label = "L233" -> [status |-> ANALYZING, next |-> "L250"]

EnterStage(w) ==
    /\ pc[w] \in {"L144", "L164", "L187", "L233"}
    /\ files' = update_file_status(files, task[w].file_id,
                                   StageOf(pc[w]).status, "stage")
    /\ Did(w, <<StatusWrite(StageOf(pc[w]).status)>>)
    /\ Goto(w, StageOf(pc[w]).next)
    /\ UNCHANGED <<logs, config_vars, queue, deliveries, sess, loc,
                   kb, published>>

\* a stage's work is done: its log row is written (one commit)
StageLogged(w, step, status, label, raising) ==
    /\ logs' = log_processing_step(logs, task[w].file_id, step, status, TRUE)
    /\ Did(w, <<CallMade(step), LogWrite(step, status)>>)
    /\ loc' = [loc EXCEPT ![w].stage = step, ![w].raising = raising]
    /\ Goto(w, label)
    /\ UNCHANGED <<files, config_vars, queue, deliveries, sess, kb,
                   published>>

\* lines 149-157: s3_service.download_file returns or throws
Download(w) ==
    /\ pc[w] = "L149"
    /\ \E ok \in BOOLEAN :
        IF ok THEN StageLogged(w, "download", "success", "L164", FALSE)
        ELSE StageLogged(w, "download", "failed", "L158", TRUE)

\* lines 168-180: decrypt_binary_data throws only when there is an asecode
Decrypt(w) ==
    /\ pc[w] = "L170"
    /\ \E ok \in BOOLEAN :
        /\ ~ok => ReadAttr(w, "asecode")
        /\ IF ok THEN StageLogged(w, "decrypt", "success", "L187", FALSE)
           ELSE StageLogged(w, "decrypt", "failed", "L181", TRUE)

\* lines 191-226: the parser answers success or a structured failure and
\* never throws; extract_zip_files (is_zip only) may throw
Parse(w) ==
    /\ pc[w] = "L199"
    /\ \E outcome \in {"success", "unsuccessful", "throw"} :
        /\ outcome = "throw" => ReadAttr(w, "is_zip")
        /\ CASE outcome = "success" ->
                  StageLogged(w, "parse", "success", "L233", FALSE)
             [] outcome = "unsuccessful" ->
                  StageLogged(w, "parse", "failed", "L212", FALSE)
             [] OTHER ->
                  StageLogged(w, "parse", "failed", "L227", TRUE)

\* a stage handler that does not write FAILED before it counts the error
StageFailedStatus_skipped(w) ==
    /\ pc[w] \in {"L158", "L181", "L212", "L227"}
    /\ Goto(w, "L161")
    /\ UNCHANGED <<files, logs, config_vars, queue, deliveries, sess, loc,
                   wrote, kb, published>>

\* lines 158, 181, 212, 227: update_file_status(FAILED, error_msg)
StageFailedStatus(w) ==
    /\ pc[w] \in {"L158", "L181", "L212", "L227"}
    /\ files' = update_file_status(files, task[w].file_id, FAILED, loc[w].stage)
    /\ Did(w, <<StatusWrite(FAILED)>>)
    /\ Goto(w, "L161")
    /\ UNCHANGED <<logs, config_vars, queue, deliveries, sess, loc,
                   kb, published>>

\* a failure handler that forgets to count the error
CountError_forgotten(w, msg) ==
    sess[w].dirty

\* file_info.error_count = (file_info.error_count or 0) + 1 and
\* file_info.last_error = msg, as pending changes of the session
CountError(w, msg) ==
    DictSet(DictSet(sess[w].dirty, "error_count", ReadAttr(w, "error_count") + 1),
            "last_error", msg)

\* lines 159-162, 182-185, 213-216, 228-231: count the error, commit, then
\* raise (download, decrypt, thrown parse) or return failure (parse result)
StageFailedCommit(w) ==
    /\ pc[w] = "L161"
    /\ files' = [files EXCEPT ![task[w].file_id] =
                    Merge(@, CountError(w, loc[w].stage))]
    /\ IF loc[w].raising
       THEN /\ Goto(w, "L363")
            /\ sess' = [sess EXCEPT ![w].expired = TRUE, ![w].dirty = EmptyDict]
            /\ Did(w, <<CommitMade>>)
            /\ UNCHANGED loc
       ELSE Finish(w, Returned(FALSE, "", loc[w].stage))
    /\ UNCHANGED <<logs, config_vars, queue, deliveries, kb, published>>

\* an outer handler that puts the row back to PENDING for the retry
OuterExcept_requeue(w) ==
    /\ pc[w] = "L363"
    /\ sess' = [sess EXCEPT ![w] =
                  [AfterRead(w) EXCEPT !.dirty = CountError(w, "exception")]]
    /\ files' = update_file_status(files, task[w].file_id, PENDING, "unknown_error")
    /\ Did(w, <<StatusWrite(PENDING)>>)
    /\ Goto(w, "L372")
    /\ UNCHANGED <<logs, config_vars, queue, deliveries, loc, kb,
                   published>>

\* lines 363-371: the outer handler counts the error again on the reloaded
\* object and writes FAILED with the "unknown error" message
OuterExcept(w) ==
    /\ pc[w] = "L363"
    /\ sess' = [sess EXCEPT ![w] =
                  [AfterRead(w) EXCEPT !.dirty = CountError(w, "exception")]]
    /\ files' = update_file_status(files, task[w].file_id, FAILED, "unknown_error")
    /\ Did(w, <<StatusWrite(FAILED)>>)
    /\ Goto(w, "L372")
    /\ UNCHANGED <<logs, config_vars, queue, deliveries, loc, kb,
                   published>>

\* lines 372-379: commit, then self.retry while retries < max_retries
OuterCommit(w) ==
    /\ pc[w] = "L372"
    /\ files' = [files EXCEPT ![task[w].file_id] = Merge(@, sess[w].dirty)]
    /\ IF task[w].retries < max_retries
       THEN /\ queue' = queue \cup {ProcessTask(task[w].file_id, task[w].retries + 1)}
            /\ Finish(w, Retried)
       ELSE /\ UNCHANGED queue
            /\ Finish(w, Returned(FALSE, "", "exception"))
    /\ UNCHANGED <<logs, config_vars, deliveries, kb, published>>

\* the analysis inputs the pipeline is run on: a sample of RuleInputs and
\* of AIOutcomes that reaches every branch of the routing decision
PipelineRuleInputs ==
    {i \in RuleInputs : i.len = "normal" /\ ~i.few_lines /\ ~i.sensitive
                        /\ i.hits = 0}
PipelineAIOutcomes ==
    {a \in AIOutcomes :
        \/ a.kind \in {"throw", "garbage"}
        \/ a.kind = "fenced" /\ a.ck = "missing"
        \/ a.kind = "json" /\ a.ck = "int" /\ a.suitable = "True"
           /\ a.reasons = "list" /\ a.conf \in {35, 85, 95}}

\* lines 271-277: the result built when the analyzer call throws
FailedAnalysis ==
    [suitable_for_kb |-> "False", confidence_score |-> 0,
     analysis_method |-> "failed", threshold_reason |-> FALSE]

\* lines 283-287, 333, 340: the routing decision
Route(analysis_result) ==
    LET processor_config == DictGet(analysis_result, "processor_config", EmptyDict)
        auto_approve_threshold ==
            DictGet(processor_config, "auto_approve_threshold",
                    DefaultAutoApproveThreshold)
        min_confidence ==
            DictGet(processor_config, "min_confidence_score", DefaultMinConfidence)
    IN  IF Truthy(analysis_result.suitable_for_kb)
           /\ analysis_result.confidence_score >= auto_approve_threshold
        THEN "L300"
        ELSE IF Truthy(analysis_result.suitable_for_kb)
                /\ analysis_result.confidence_score >= min_confidence
             THEN "L336"
             ELSE "L342"

\* lines 262-264, 278-280: the analysis outcome as pending changes
StoreAnalysis(dirty, r) ==
    DictSet(DictSet(DictSet(dirty, "ai_analysis_result", r.analysis_method),
                    "ai_confidence_score", r.confidence_score),
            "should_add_to_kb", r.suitable_for_kb)

\* an analysis stage that treats a throw as the other stages do: FAILED,
\* count the error, raise
Analyze_aborting(w) ==
    /\ pc[w] = "L250"
    /\ \E inp \in PipelineRuleInputs, ai \in PipelineAIOutcomes,
          thrown \in BOOLEAN :
        LET out == analyze_document_content(ReadAttr(w, "business_category"),
                                            inp, ai, client, mapping,
                                            knowledge_bases, dialect)
        IN  IF thrown
            THEN /\ StageLogged(w, "analyze", "failed", "L227", TRUE)
                 /\ UNCHANGED sess
            ELSE /\ logs' = log_processing_step(logs, task[w].file_id,
                                                "analyze", "success", TRUE)
                 /\ Did(w, <<CallMade("analyze"), LogWrite("analyze", "success")>>)
                 /\ loc' = [loc EXCEPT ![w].stage = "analyze",
                                       ![w].analysis_result = out[1],
                                       ![w].target_knowledge_base = out[2]]
                 /\ sess' = [sess EXCEPT ![w].dirty = StoreAnalysis(@, out[1])]
                 /\ Goto(w, Route(out[1]))
    /\ UNCHANGED <<files, config_vars, queue, deliveries, kb, published>>

\* lines 236-287: the analyzer call, its log row, the stored outcome and
\* the routing decision; a throw inside the try block is downgraded
Analyze(w) ==
    /\ pc[w] = "L250"
    /\ \E inp \in PipelineRuleInputs, ai \in PipelineAIOutcomes,
          thrown \in BOOLEAN :
        LET out == analyze_document_content(ReadAttr(w, "business_category"),
                                            inp, ai, client, mapping,
                                            knowledge_bases, dialect)
            r == IF thrown THEN FailedAnalysis ELSE out[1]
        IN  /\ logs' = log_processing_step(logs, task[w].file_id, "analyze",
                          IF thrown THEN "failed" ELSE "success", TRUE)
            /\ Did(w, <<CallMade("analyze"),
                        LogWrite("analyze", IF thrown THEN "failed" ELSE "success")>>)
            /\ loc' = [loc EXCEPT ![w].stage = "analyze",
                                  ![w].analysis_result = r,
                                  ![w].target_knowledge_base =
                                      IF thrown THEN 0 ELSE out[2]]
            /\ sess' = [sess EXCEPT ![w].dirty = StoreAnalysis(@, r)]
            /\ Goto(w, Route(r))
    /\ UNCHANGED <<files, config_vars, queue, deliveries, kb, published>>

\* a publish step that treats a missing target as a configuration
\* failure: no call, the document fails
Publish_skipping(w) ==
    /\ pc[w] = "L300"
    /\ IF loc[w].target_knowledge_base = 0
       THEN /\ Goto(w, "L329")
            /\ UNCHANGED <<published, kb, sess, wrote>>
       ELSE /\ published' = published \cup
                  {[file_id |-> task[w].file_id,
                    document_id |-> files[task[w].file_id].document_id,
                    service |-> loc[w].target_knowledge_base]}
            /\ \E outcome \in {"success", "failure", "throw"} :
                /\ kb' = IF outcome = "success"
                         THEN [live |-> kb.live \cup
                                  {[id |-> kb.next_id,
                                    file_id |-> task[w].file_id]},
                               next_id |-> kb.next_id + 1]
                         ELSE kb
                /\ sess' = IF outcome = "success"
                           THEN [sess EXCEPT ![w].dirty =
                                    DictSet(@, "document_id", kb.next_id)]
                           ELSE sess
                /\ Goto(w, CASE outcome = "success" -> "L314"
                             [] outcome = "failure" -> "L320"
                             [] OTHER -> "L328")
            /\ Did(w, <<CallMade("add_to_kb")>>)
    /\ UNCHANGED <<files, logs, config_vars, queue, deliveries, loc>>

\* lines 290-312, 318-331: the publish call.  It answers a new document id,
\* answers success = false, or throws.
Publish(w) ==
    /\ pc[w] = "L300"
    /\ published' = published \cup
          {[file_id |-> task[w].file_id,
            document_id |-> files[task[w].file_id].document_id,
            service |-> loc[w].target_knowledge_base]}
    /\ \E outcome \in {"success", "failure", "throw"} :
        /\ kb' = IF outcome = "success"
                 THEN [live |-> kb.live \cup {[id |-> kb.next_id,
                                                 file_id |-> task[w].file_id]},
                       next_id |-> kb.next_id + 1]
                 ELSE kb
        /\ sess' = IF outcome = "success"
                   THEN [sess EXCEPT ![w].dirty = DictSet(@, "document_id", kb.next_id)]
                   ELSE sess
        /\ Goto(w, CASE outcome = "success" -> "L314"
                     [] outcome = "failure" -> "L320"
                     [] OTHER -> "L328")
    /\ Did(w, <<CallMade("add_to_kb")>>)
    /\ UNCHANGED <<files, logs, config_vars, queue, deliveries, loc>>

\* mutant: the skip branch leaves the status as the analysis stage set it
OutcomeStatus_unrouted(label) ==
    CASE label = "L314" -> [status |-> COMPLETED, next |-> "L315"]
      [] label = "L320" -> [status |-> FAILED, next |-> "L321"]
      [] label = "L329" -> [status |-> FAILED, next |-> "L346"]
      [] label = "L336" -> [status |-> AWAITING_APPROVAL, next |-> "L337"]
      [] label = "L342" -> [status |-> ANALYZING, next |-> "L344"]

\* the status written on each routing outcome, and where it goes next
OutcomeStatus(label) ==
    CASE label = "L314" -> [status |-> COMPLETED, next |-> "L315"]
      [] label = "L320" -> [status |-> FAILED, next |-> "L321"]
      [] label = "L329" -> [status |-> FAILED, next |-> "L346"]
      [] label = "L336" -> [status |-> AWAITING_APPROVAL, next |-> "L337"]
      [] label = "L342" -> [status |-> SKIPPED, next |-> "L344"]

\* lines 314, 320, 329, 336, 342: update_file_status with the outcome; a
\* failed publish also counts the error (lines 322-323, 330-331)
WriteOutcomeStatus(w) ==
    /\ pc[w] \in {"L314", "L320", "L329", "L336", "L342"}
    /\ files' = update_file_status(files, task[w].file_id,
                                   OutcomeStatus(pc[w]).status, "outcome")
    /\ Did(w, <<StatusWrite(OutcomeStatus(pc[w]).status)>>)
    /\ sess' = IF pc[w] = "L329"
               THEN [sess EXCEPT ![w].dirty = CountError(w, "add_to_kb")]
               ELSE sess
    /\ Goto(w, OutcomeStatus(pc[w]).next)
    /\ UNCHANGED <<logs, config_vars, queue, deliveries, loc, kb,
                   published>>

\* the log row written on each routing outcome
OutcomeLog(label) ==
    CASE label = "L315" -> [step |-> "add_to_kb", status |-> "success",
                            duration |-> TRUE, next |-> "L346"]
      [] label = "L321" -> [step |-> "add_to_kb", status |-> "failed",
                            duration |-> TRUE, next |-> "L346"]
      [] label = "L328" -> [step |-> "add_to_kb", status |-> "failed",
                            duration |-> TRUE, next |-> "L329"]
      [] label = "L337" -> [step |-> "review", status |-> "pending",
                            duration |-> FALSE, next |-> "L346"]
      [] label = "L344" -> [step |-> "skip", status |-> "success",
                            duration |-> FALSE, next |-> "L346"]

\* lines 315, 321, 328, 337, 344: log_processing_step of the outcome
WriteOutcomeLog(w) ==
    /\ pc[w] \in {"L315", "L321", "L328", "L337", "L344"}
    /\ logs' = log_processing_step(logs, task[w].file_id, OutcomeLog(pc[w]).step,
                                   OutcomeLog(pc[w]).status,
                                   OutcomeLog(pc[w]).duration)
    /\ Did(w, <<LogWrite(OutcomeLog(pc[w]).step, OutcomeLog(pc[w]).status)>>)
    /\ sess' = IF pc[w] = "L321"
               THEN [sess EXCEPT ![w].dirty = CountError(w, "add_to_kb")]
               ELSE sess
    /\ Goto(w, OutcomeLog(pc[w]).next)
    /\ UNCHANGED <<files, config_vars, queue, deliveries, loc, kb,
                   published>>

\* lines 346-361: the task's own commit, then the summary; the summary's
\* status is read from the reloaded row
FinalCommit(w) ==
    /\ pc[w] = "L346"
    /\ files' = [files EXCEPT ![task[w].file_id] = Merge(@, sess[w].dirty)]
    /\ Finish(w, Returned(TRUE, files'[task[w].file_id].processing_status, ""))
    /\ UNCHANGED <<logs, config_vars, queue, deliveries, kb, published>>

ProcessStep(w) ==
    \/ CanProcessFile(w)
    \/ LoadFileInfo(w)
    \/ EnterStage(w)
    \/ Download(w)
    \/ Decrypt(w)
    \/ Parse(w)
    \/ StageFailedStatus(w)
    \/ StageFailedCommit(w)
    \/ OuterExcept(w)
    \/ OuterCommit(w)
    \/ Analyze(w)
    \/ Publish(w)
    \/ WriteOutcomeStatus(w)
    \/ WriteOutcomeLog(w)
    \/ FinalCommit(w)

\* ---------------------------------------------------- approve_document
ApproveTask(f, approved) ==
    [file_id |-> f, retries |-> 0, kind |-> "approve", approved |-> approved]

\* routes.approve_file: POST /files/{file_id}/approve submits the review
\* task for a row that is AWAITING_APPROVAL
approve_file(f, approved) ==
    /\ f \in DOMAIN files
    /\ files[f].processing_status = AWAITING_APPROVAL
    /\ queue' = queue \cup {ApproveTask(f, approved)}
    /\ UNCHANGED <<files, logs, config_vars, deliveries, pc, task, sess, loc,
                   ret, wrote, kb, published>>

\* a review guard that takes a record of any status
ApproveGuard_any_status(w) ==
    /\ pc[w] = "L478"
    /\ IF task[w].file_id \in DOMAIN files
       THEN /\ Goto(w, IF task[w].approved THEN "L494" ELSE "L564")
            /\ sess' = [sess EXCEPT ![w] =
                  [loaded |-> TRUE, expired |-> FALSE,
                   row |-> files[task[w].file_id], dirty |-> EmptyDict]]
            /\ UNCHANGED <<loc, wrote>>
       ELSE Finish(w, Returned(FALSE, "", "not_reviewable"))
    /\ UNCHANGED <<files, logs, config_vars, queue, deliveries, kb, published>>

\* lines 477-486: load file_info; only AWAITING_APPROVAL is reviewed
ApproveGuard(w) ==
    /\ pc[w] = "L478"
    /\ IF /\ task[w].file_id \in DOMAIN files
          /\ files[task[w].file_id].processing_status = AWAITING_APPROVAL
       THEN /\ Goto(w, IF task[w].approved THEN "L494" ELSE "L564")
            /\ sess' = [sess EXCEPT ![w] =
                  [loaded |-> TRUE, expired |-> FALSE,
                   row |-> files[task[w].file_id], dirty |-> EmptyDict]]
            /\ UNCHANGED <<loc, wrote>>
       ELSE Finish(w, Returned(FALSE, "", "not_reviewable"))
    /\ UNCHANGED <<files, logs, config_vars, queue, deliveries, kb, published>>

\* lines 493-524: download, decrypt, extract and parse again
ApproveReparse(w) ==
    /\ pc[w] = "L494"
    /\ \E ok \in BOOLEAN :
        /\ Goto(w, IF ok THEN "L536" ELSE "L513")
        /\ Did(w, <<CallMade("reparse")>>)
    /\ UNCHANGED <<files, logs, config_vars, queue, deliveries, sess, loc, kb,
                   published>>

\* line 527: get_target_knowledge_base raises; the handler of line 558
\* takes over before any publish call
ApproveTargetRaises(w) ==
    /\ pc[w] = "L536"
    /\ get_target_knowledge_base(mapping, knowledge_bases, dialect) = QueryRaised
    /\ Goto(w, "L555")
    /\ UNCHANGED <<files, logs, config_vars, queue, deliveries, sess, loc, wrote,
                   kb, published>>

\* lines 526-547, 553-561: the publish call of an approved document
ApprovePublish(w) ==
    /\ pc[w] = "L536"
    /\ get_target_knowledge_base(mapping, knowledge_bases, dialect) # QueryRaised
    /\ published' = published \cup
          {[file_id |-> task[w].file_id,
            document_id |-> files[task[w].file_id].document_id,
            service |-> get_target_knowledge_base(mapping, knowledge_bases,
                                                  dialect)]}
    /\ \E outcome \in {"success", "failure", "throw"} :
        /\ kb' = IF outcome = "success"
                 THEN [live |-> kb.live \cup {[id |-> kb.next_id,
                                                 file_id |-> task[w].file_id]},
                       next_id |-> kb.next_id + 1]
                 ELSE kb
        /\ sess' = IF outcome = "success"
                   THEN [sess EXCEPT ![w].dirty = DictSet(@, "document_id", kb.next_id)]
                   ELSE sess
        /\ Goto(w, IF outcome = "success" THEN "L549" ELSE "L555")
    /\ Did(w, <<CallMade("add_to_kb")>>)
    /\ UNCHANGED <<files, logs, config_vars, queue, deliveries, loc>>

\* the status and the log row of each review outcome, and what follows:
\* a failed re-parse returns at once, the others reach the commit of line 569
ApproveOutcome(label) ==
    CASE label = "L513" -> [status |-> FAILED, step |-> "manual_approve",
                            log |-> "failed", commit |-> FALSE]
      [] label = "L549" -> [status |-> COMPLETED, step |-> "manual_approve",
                            log |-> "success", commit |-> TRUE]
      [] label = "L555" -> [status |-> FAILED, step |-> "manual_approve",
                            log |-> "failed", commit |-> TRUE]
      [] label = "L564" -> [status |-> SKIPPED, step |-> "manual_reject",
                            log |-> "success", commit |-> TRUE]

\* lines 513, 522, 549, 555, 560, 564: update_file_status with the outcome
ApproveStatus(w) ==
    /\ pc[w] \in {"L513", "L549", "L555", "L564"}
    /\ files' = update_file_status(files, task[w].file_id,
                                   ApproveOutcome(pc[w]).status, "review")
    /\ Did(w, <<StatusWrite(ApproveOutcome(pc[w]).status)>>)
    /\ loc' = [loc EXCEPT ![w].stage = pc[w]]
    /\ Goto(w, "L551")
    /\ UNCHANGED <<logs, config_vars, queue, deliveries, sess, kb, published>>

\* lines 514-515, 523-524, 551, 556, 561, 566: the log row of the outcome;
\* a failed re-parse returns success = False here
ApproveLog(w) ==
    /\ pc[w] = "L551"
    /\ logs' = log_processing_step(logs, task[w].file_id,
                                   ApproveOutcome(loc[w].stage).step,
                                   ApproveOutcome(loc[w].stage).log, FALSE)
    /\ IF ApproveOutcome(loc[w].stage).commit
       THEN /\ Goto(w, "L569")
            /\ Did(w, <<LogWrite(ApproveOutcome(loc[w].stage).step,
                                 ApproveOutcome(loc[w].stage).log)>>)
            /\ UNCHANGED <<sess, loc>>
       ELSE Finish(w, Returned(FALSE, "", "reparse"))
    /\ UNCHANGED <<files, config_vars, queue, deliveries, kb, published>>

\* lines 569-572: commit and return success = True
ApproveCommit(w) ==
    /\ pc[w] = "L569"
    /\ files' = [files EXCEPT ![task[w].file_id] = Merge(@, sess[w].dirty)]
    /\ Finish(w, Returned(TRUE, files'[task[w].file_id].processing_status, ""))
    /\ UNCHANGED <<logs, config_vars, queue, deliveries, kb, published>>

ApproveStep(w) ==
    \/ ApproveGuard(w)
    \/ ApproveReparse(w)
    \/ ApproveTargetRaises(w)
    \/ ApprovePublish(w)
    \/ ApproveStatus(w)
    \/ ApproveLog(w)
    \/ ApproveCommit(w)

Next ==
    \/ \E f \in FileIds : process_file(f)
    \/ \E w \in Workers : Deliver(w)
    \/ \E w \in Workers : ProcessStep(w)
    \/ \E f \in FileIds, approved \in BOOLEAN : approve_file(f, approved)
    \/ \E w \in Workers : ApproveStep(w)

Spec == Init /\ [][Next]_vars

SpecRace == InitRace /\ [][Next]_vars

\* ------------------------------------------------- the analyzer on its own
\* file_info.get('business_category'): absent, a string that is no
\* BusinessCategory, or a BusinessCategory
Categories == {"missing", "invalid", "HEADQUARTERS_ISSUE"}

\* an installation (any mapping fixture, with or without an AI client) and
\* the call about to be made: the category, what the rule-based analyzer
\* will see in the document, and what the AI capability will do
InitAnalyzer ==
    /\ mapping \in MappingFixtures
    /\ client \in BOOLEAN
    /\ dialect \in Dialects
    /\ knowledge_bases = <<"ACTIVE", "ACTIVE">>
    /\ pool = {"w1"}
    /\ files = [f \in Files |-> NewFile(MainTextFile)]
    /\ logs = EmptyBag
    /\ queue = {}
    /\ deliveries = 0
    /\ pc = [w \in Workers |-> "idle"]
    /\ task = [w \in Workers |-> NoTask]
    /\ sess = [w \in Workers |-> NoSession]
    /\ loc = [w \in Workers |-> NoLocals]
    /\ ret = [w \in Workers |-> NoReturn]
    /\ wrote = [w \in Workers |-> <<>>]
    /\ kb = [live |-> {}, next_id |-> 1]
    /\ published = {}
    /\ sweep = NoSweep
    /\ \E category \in Categories, inp \in RuleInputs, ai \in AIOutcomes :
        call = [made |-> FALSE, category |-> category, inp |-> inp, ai |-> ai]

\* ai_analyzer.analyze_document_content(content, filename, file_info,
\* metadata) is called and returns
AnalyzeDocument ==
    /\ ~call.made
    /\ LET out == analyze_document_content(call.category, call.inp, call.ai,
                                           client, mapping, knowledge_bases,
                                           dialect)
       IN  call' = [made |-> TRUE, category |-> call.category, inp |-> call.inp,
                    ai |-> call.ai, result |-> out[1], target_kb |-> out[2]]
    /\ UNCHANGED <<files, logs, mapping, knowledge_bases, client, pool, queue,
                   deliveries, pc, task, sess, loc, ret, wrote, kb, published,
                   dialect, sweep>>

NextAnalyzer == AnalyzeDocument

SpecAnalyzer == InitAnalyzer /\ [][NextAnalyzer]_vars
\* =============================================================== sweeps
\* A file name is a sequence of tokens: "<" and ">" stand for the title
\* brackets, "_" for an underscore, a member of RevisionKeywords for one of
\* the ten revision words of line 76, "draft" for a configured skip keyword
\* of the file filter; any other token is plain text.
RevisionKeywords ==
    {"revise", "modify", "update", "adjust", "change", "correct",
     "supplement", "improve", "abolish", "repeal"}

\* VersionManager.check_revision_keywords
check_revision_keywords(filename) ==
    \E i \in 1..Len(filename) : filename[i] \in RevisionKeywords

\* VersionManager.extract_title_from_brackets: re.search of <(.+?)>; the
\* leftmost opening bracket that can match, then the nearest closing bracket
\* that leaves at least one character between them; <<>> is None
extract_title_from_brackets(filename) ==
    LET opens == {i \in 1..Len(filename) :
                     /\ filename[i] = "<"
                     /\ \E j \in (i + 2)..Len(filename) : filename[j] = ">"}
    IN  IF opens = {} THEN <<>>
        ELSE LET i == CHOOSE x \in opens : \A y \in opens : x <= y
                 closes == {j \in (i + 2)..Len(filename) : filename[j] = ">"}
                 j == CHOOSE x \in closes : \A y \in closes : x <= y
             IN  SubSeq(filename, i + 1, j - 1)

\* imagefilename LIKE '%title%': an underscore of the title matches any one
\* character of the name (no title of the model holds a percent sign)
Like(filename, title) ==
    \E k \in 0..(Len(filename) - Len(title)) :
        \A i \in 1..Len(title) : title[i] = "_" \/ filename[k + i] = title[i]

\* VersionManager.find_similar_documents
find_similar_documents(tbl, title, category) ==
    {f \in DOMAIN tbl :
        /\ tbl[f].business_category = category
        /\ Like(tbl[f].imagefilename, title)
        /\ tbl[f].processing_status = COMPLETED
        /\ tbl[f].document_id # NoDocumentId}

\* FileFilter.should_process_file without file data: the keyword filter on
\* the file name
should_process_file(row) ==
    \A i \in 1..Len(row.imagefilename) : row.imagefilename[i] # "draft"

\* the rows the sweeps are run on
SweepFiles == {"d1", "d2", "d3"}
UnknownId == "d9"
\* a value of ai_metadata.expiration_date: a word or a written date, which
\* has the format it is written in and the day it names; the empty text is
\* a missing, null or empty value
DateText(text) == [text |-> text, fmt |-> "none", day |-> 0]
DateIn(fmt, day) == [text |-> "date", fmt |-> fmt, day |-> day]
NoInfo == DateText("")

\* a value of the column ai_analysis_result: NULL, a text that is no JSON
\* object, or an object, whose ai_metadata is absent, null or an object
\* with the expiration_date
StoredResult(text, ai_metadata, expiration_date) ==
    [text |-> text, ai_metadata |-> ai_metadata,
     expiration_date |-> expiration_date]
\* json.dumps(analysis_result) of process_document: no ai_metadata
PipelineResult == StoredResult("object", "absent", NoInfo)

\* a row that went through the pipeline holds the result stored at line
\* 262, a row that waits for it holds none
SweptRow(name, category, status, document_id) ==
    [NewFile([imagefilename |-> name, is_zw |-> TRUE, is_zip |-> FALSE,
              asecode |-> FALSE, business_category |-> category])
        EXCEPT !.processing_status = status, !.document_id = document_id,
               !.ai_analysis_result =
                   IF status = PENDING
                   THEN StoredResult("null", "absent", NoInfo)
                   ELSE PipelineResult]

\* d1: a published headquarters document with a revision word in its name
Rows1 ==
    {SweptRow(<<"<", "A", ">", "revise">>, "HEADQUARTERS_ISSUE", COMPLETED, 1),
     SweptRow(<<"<", "A", "_", ">", "revise">>, "HEADQUARTERS_ISSUE", COMPLETED, 1),
     SweptRow(<<"revise", "A">>, "HEADQUARTERS_ISSUE", COMPLETED, 1)}
\* d2: another document about the same title
Rows2 ==
    {SweptRow(<<"notice", "<", "A", ">">>, "HEADQUARTERS_ISSUE", COMPLETED, 2),
     SweptRow(<<"<", "A", ">", "<", "B", ">", "update">>, "HEADQUARTERS_ISSUE",
              COMPLETED, 2),
     SweptRow(<<"notice", "<", "A", ">">>, "BRANCH_ISSUE", COMPLETED, 2),
     SweptRow(<<"<", "A", ">", "draft">>, "HEADQUARTERS_ISSUE", PENDING,
              NoDocumentId)}
\* d3: a document about another title: published; published, then reset by
\* the operator and failed in the second run (it keeps its document_id);
\* waiting for review; not processed yet
Rows3 ==
    {SweptRow(<<"<", "B", ">">>, "HEADQUARTERS_ISSUE", COMPLETED, 3),
     SweptRow(<<"<", "B", ">">>, "HEADQUARTERS_ISSUE", FAILED, 3),
     SweptRow(<<"<", "B", ">">>, "HEADQUARTERS_ISSUE", AWAITING_APPROVAL,
              NoDocumentId),
     SweptRow(<<"<", "B", ">">>, "HEADQUARTERS_ISSUE", PENDING, NoDocumentId)}

InitSweep ==
    /\ \E r1 \in Rows1, r2 \in Rows2, r3 \in Rows3 :
        /\ files = [f \in SweepFiles |->
                      CASE f = "d1" -> r1 [] f = "d2" -> r2 [] OTHER -> r3]
        /\ kb = [live |-> {[id |-> files[f].document_id, file_id |-> f] :
                              f \in {x \in SweepFiles :
                                        files[x].document_id # NoDocumentId}},
                 next_id |-> 4]
    /\ dialect \in Dialects
    /\ client \in BOOLEAN
    /\ mapping = EmptyDict
    /\ knowledge_bases = <<"ACTIVE", "ACTIVE">>
    /\ pool = {"w1"}
    /\ logs = EmptyBag
    /\ queue = {}
    /\ deliveries = 0
    /\ pc = [w \in Workers |-> "idle"]
    /\ task = [w \in Workers |-> NoTask]
    /\ sess = [w \in Workers |-> NoSession]
    /\ loc = [w \in Workers |-> NoLocals]
    /\ ret = [w \in Workers |-> NoReturn]
    /\ wrote = [w \in Workers |-> <<>>]
    /\ published = {}
    /\ call = NoCall
    /\ sweep = NoSweep

\* what the sweeps leave alone
sweep_frame == <<mapping, knowledge_bases, client, pool, call, dialect,
                 deliveries, pc, task, sess, loc, ret, wrote, published>>

\* batch_process_documents(limit): the PENDING main-text rows (at most
\* 2 * limit of them); a row the filter refuses becomes SKIPPED with a
\* batch_filter log row, the first limit others are submitted
batch_process_documents ==
    /\ sweep.pc = "idle"
    /\ LET pending == {f \in DOMAIN files :
                          /\ files[f].is_zw
                          /\ files[f].processing_status = PENDING}
           refused == {f \in pending : ~should_process_file(files[f])}
           AddLogs[S \in SUBSET refused] ==
               IF S = {} THEN logs
               ELSE LET f == CHOOSE x \in S : TRUE
                    IN  log_processing_step(AddLogs[S \ {f}], f, "batch_filter",
                                            "skipped", FALSE)
       IN  /\ pending # {}
           \* the table is smaller than the limit: no row is cut off
           /\ Cardinality(pending) <= BatchLimit
           /\ files' = [f \in DOMAIN files |->
                          IF f \in refused
                          THEN update_file_status(files, f, SKIPPED,
                                                  "batch_filter")[f]
                          ELSE files[f]]
           /\ logs' = AddLogs[refused]
           /\ queue' = queue \cup {ProcessTask(f, 0) : f \in pending \ refused}
    /\ UNCHANGED <<sweep_frame, kb, sweep>>

\* what the AI comparison answers: the call throws (or the reply is no
\* JSON), or a reply naming a latest document and the old ones; the ids are
\* the AI's and need not belong to the documents it was shown
CompareOutcomes ==
    {[kind |-> "throw", latest |-> "f0", old |-> <<>>]} \cup
    {[kind |-> "json", latest |-> l, old |-> o] :
        l \in SweepFiles,
        o \in {<<>>} \cup {<<x>> : x \in SweepFiles \cup {UnknownId}}
              \cup {<<x, y>> : x \in {"d2"}, y \in {"d3", UnknownId}}}

\* lines 367: are there previews enough for a comparison (a variant that
\* is content with one)
EnoughPreviews_one(previews) == Cardinality(previews) >= 1

\* line 367: len(documents_with_previews) < 2 skips the comparison
EnoughPreviews(previews) == Cardinality(previews) >= 2

\* a delete that marks the record even when the capability failed
delete_document_from_dify_always(row, outcome, aborted) ==
    CASE row.document_id = NoDocumentId ->
            [outcome |-> "no_document_id", done |-> FALSE, row |-> row,
             aborted |-> aborted]
      [] get_target_knowledge_base(mapping, knowledge_bases, dialect)
            = QueryRaised ->
            [outcome |-> "raised", done |-> FALSE, row |-> row,
             aborted |-> TRUE]
      [] OTHER ->
            [outcome |-> outcome, done |-> outcome = "success",
             row |-> [row EXCEPT !.processing_status = SKIPPED,
                                 !.processing_message = "deleted",
                                 !.document_id = NoDocumentId],
             aborted |-> aborted]

\* VersionManager.delete_document_from_dify(file_info, db): False without
\* a document_id; the target lookup may raise (caught: False, and the
\* session's transaction stays aborted); then the delete call, whose
\* outcome is "success" or "failure"; on success the row becomes SKIPPED
\* without document_id and is committed
delete_document_from_dify(row, outcome, aborted) ==
    CASE row.document_id = NoDocumentId ->
            [outcome |-> "no_document_id", done |-> FALSE, row |-> row,
             aborted |-> aborted]
      [] get_target_knowledge_base(mapping, knowledge_bases, dialect)
            = QueryRaised ->
            [outcome |-> "raised", done |-> FALSE, row |-> row,
             aborted |-> TRUE]
      [] outcome = "success" ->
            [outcome |-> "success", done |-> TRUE,
             row |-> [row EXCEPT !.processing_status = SKIPPED,
                                 !.processing_message = "deleted",
                                 !.document_id = NoDocumentId],
             aborted |-> aborted]
      [] OTHER ->
            [outcome |-> "failure", done |-> FALSE, row |-> row,
             aborted |-> aborted]

\* clean_headquarters_version_duplicates starts: lines 316-321, the batch
\* of COMPLETED headquarters rows with a document_id, at most limit of them
StartDedup ==
    /\ sweep.pc = "idle"
    /\ sweep.runs < MaxSweeps
    /\ LET found == {f \in DOMAIN files :
                        /\ files[f].business_category = "HEADQUARTERS_ISSUE"
                        /\ files[f].processing_status = COMPLETED
                        /\ files[f].document_id # NoDocumentId}
       IN  \E batch \in SUBSET found :
              /\ Cardinality(batch) = Min(DedupLimit, Cardinality(found))
              /\ sweep' = [NoSweep EXCEPT !.pc = "L325", !.runs = sweep.runs,
                                          !.batch = batch,
                                          !.size = Cardinality(batch)]
    /\ UNCHANGED <<files, logs, queue, kb, sweep_frame>>

\* a sweep that gives up the rest of its batch
NextItem_stopping(f, stats) ==
    [sweep EXCEPT !.batch = {}, !.cur = f, !.stats = stats,
                  !.title = <<>>, !.group = {}, !.previews = {},
                  !.compared = 0, !.ai_calls = 0, !.prompt = {},
                  !.latest = "f0", !.old = <<>>,
                  !.last_delete = NoSweep.last_delete]

\* the sweep goes on to the next document: the locals of the item
NextItem(f, stats) ==
    [sweep EXCEPT !.batch = sweep.batch \ {f}, !.cur = f, !.stats = stats,
                  !.title = <<>>, !.group = {}, !.previews = {},
                  !.compared = 0, !.ai_calls = 0, !.prompt = {},
                  !.latest = "f0", !.old = <<>>,
                  !.last_delete = NoSweep.last_delete]

Count(stats, k) == [stats EXCEPT ![k] = @ + 1]

\* lines 325-374: one document of the batch, up to the AI's answer
DedupItem ==
    /\ sweep.pc = "L325"
    /\ \E f \in sweep.batch :
        LET processed == Count(sweep.stats, "processed")
            name == files[f].imagefilename
            title == extract_title_from_brackets(name)
            group == find_similar_documents(files, title, "HEADQUARTERS_ISSUE")
            found == Count(processed, "duplicates_found")
        IN  IF ~check_revision_keywords(name) \/ title = <<>>
            THEN sweep' = NextItem(f, processed)
            ELSE IF sweep.aborted
            THEN sweep' = [NextItem(f, Count(processed, "errors"))
                              EXCEPT !.title = title]
            ELSE IF Cardinality(group) <= 1
            THEN sweep' = [NextItem(f, processed)
                              EXCEPT !.title = title, !.group = group]
            ELSE \E previews \in SUBSET group :
                  IF ~EnoughPreviews(previews)
                  THEN sweep' = [NextItem(f, found)
                                    EXCEPT !.title = title, !.group = group,
                                           !.previews = previews]
                  ELSE \E ai \in CompareOutcomes :
                        LET answered == /\ client
                                        /\ Cardinality(previews) >= 2
                                        /\ ai.kind = "json"
                            called == client /\ Cardinality(previews) >= 2
                        IN  sweep' =
                              [NextItem(f, IF answered THEN found
                                           ELSE Count(found, "errors"))
                                 EXCEPT !.title = title, !.group = group,
                                        !.previews = previews,
                                        !.compared = 1,
                                        !.ai_calls = IF called THEN 1 ELSE 0,
                                        !.prompt = IF called THEN previews ELSE {},
                                        !.latest = IF answered THEN ai.latest
                                                   ELSE "f0",
                                        !.old = IF answered THEN ai.old ELSE <<>>,
                                        !.pc = IF answered THEN "L377" ELSE "L325"]
    /\ UNCHANGED <<files, logs, queue, kb, sweep_frame>>

\* lines 376-384: the next id of old_document_ids: the row is looked up by
\* imagefileid and deleted from the knowledge base
DedupDelete ==
    /\ sweep.pc = "L377"
    /\ sweep.old # <<>>
    /\ LET old_id == Head(sweep.old)
       IN  IF sweep.aborted
           THEN /\ sweep' = [sweep EXCEPT !.pc = "L325", !.old = <<>>,
                                !.stats = Count(sweep.stats, "errors")]
                /\ UNCHANGED <<files, kb>>
           ELSE IF old_id \notin DOMAIN files
           THEN /\ sweep' = [sweep EXCEPT !.old = Tail(sweep.old)]
                /\ UNCHANGED <<files, kb>>
           ELSE \E outcome \in {"success", "failure"} :
                  LET d == delete_document_from_dify(files[old_id], outcome,
                                                     sweep.aborted)
                  IN  /\ files' = [files EXCEPT ![old_id] = d.row]
                      /\ kb' = IF d.outcome = "success"
                               THEN [kb EXCEPT !.live =
                                       {x \in kb.live :
                                          x.id # files[old_id].document_id}]
                               ELSE kb
                      /\ sweep' = [sweep EXCEPT
                            !.old = Tail(sweep.old),
                            !.aborted = d.aborted,
                            !.last_delete = [file |-> old_id,
                                             outcome |-> d.outcome,
                                             done |-> d.done],
                            !.stats = IF d.done THEN Count(sweep.stats, "deleted")
                                      ELSE sweep.stats]
    /\ UNCHANGED <<logs, queue, sweep_frame>>

\* lines 386-391: the group's entry of the details
DedupDetails ==
    /\ sweep.pc = "L377"
    /\ sweep.old = <<>>
    /\ sweep' = [sweep EXCEPT !.pc = "L325",
                              !.stats = Count(sweep.stats, "details")]
    /\ UNCHANGED <<files, logs, queue, kb, sweep_frame>>

\* line 398: the batch is through, the statistics are returned
DedupReturn ==
    /\ sweep.pc = "L325"
    /\ sweep.batch = {}
    /\ sweep' = [sweep EXCEPT !.pc = "idle", !.runs = @ + 1]
    /\ UNCHANGED <<files, logs, queue, kb, sweep_frame>>

NextSweep ==
    \/ batch_process_documents
    \/ StartDedup
    \/ DedupItem
    \/ DedupDelete
    \/ DedupDetails
    \/ DedupReturn

SpecSweep == InitSweep /\ [][NextSweep]_vars

\* ------------------------------------------------ the expiration sweep
\* (services/version_manager.py, lines 404-634)

\* a datetime: the day and the time of the day (tick 0 is midnight)
Before(a, b) == a.day < b.day \/ (a.day = b.day /\ a.tick < b.tick)
NoClock == [day |-> 0, tick |-> 0]
\* what datetime.now() may answer during a sweep
Clock == [day : {2}, tick : {0, 1}]

\* line 428: the values that say "no expiration" ("yongjiu", "wu" and
\* "changqi" are the three Chinese words of the list)
PermanentValues == {"yongjiu", "wu", "permanent", "none", "never", "changqi"}

\* line 435: the formats strptime is tried with (the third is the Chinese
\* year-month-day form)
date_formats == {"%Y-%m-%d", "%Y/%m/%d", "%Y_nian_%m_yue_%d_ri"}

ExpirationDates ==
    {DateText(""), DateText("permanent"), DateText("yongjiu"),
     DateText("Permanent"),
     DateIn("%Y-%m-%d", 1), DateIn("%Y/%m/%d", 2),
     DateIn("%Y_nian_%m_yue_%d_ri", 3), DateIn("%d.%m.%Y", 1)}

StoredResults ==
    {StoredResult("null", "absent", NoInfo),
     StoredResult("malformed", "absent", NoInfo),
     PipelineResult,
     StoredResult("object", "null", NoInfo)} \cup
    {StoredResult("object", "object", d) : d \in ExpirationDates}

\* a check that forgets the permanence value it found
check_document_expiration_by_metadata_forgetful(row, now) ==
    LET stored == row.ai_analysis_result
        date == stored.expiration_date
    IN  IF stored.text # "object" \/ stored.ai_metadata # "object"
        THEN [is_expired |-> FALSE, info |-> NoInfo]
        ELSE IF date.text = "" \/ date.text \in PermanentValues
        THEN [is_expired |-> FALSE, info |-> NoInfo]
        ELSE IF date.text # "date" \/ date.fmt \notin date_formats
        THEN [is_expired |-> FALSE, info |-> date]
        ELSE [is_expired |-> Before([day |-> date.day, tick |-> 0], now),
              info |-> date]

\* VersionManager.check_document_expiration_by_metadata(file_info) with
\* the clock reading of line 450 -> (is_expired, expiration_date)
check_document_expiration_by_metadata(row, now) ==
    LET stored == row.ai_analysis_result
        date == stored.expiration_date
    IN  IF stored.text # "object" \/ stored.ai_metadata # "object"
        THEN [is_expired |-> FALSE, info |-> NoInfo]
        ELSE IF date.text = ""
        THEN [is_expired |-> FALSE, info |-> NoInfo]
        ELSE IF date.text \in PermanentValues
        THEN [is_expired |-> FALSE, info |-> date]
        ELSE IF date.text # "date" \/ date.fmt \notin date_formats
        THEN [is_expired |-> FALSE, info |-> date]
        ELSE [is_expired |-> Before([day |-> date.day, tick |-> 0], now),
              info |-> date]

\* what the AI answers to the expiration question: the call or json.loads
\* throws, or the value of "is_expired" in the reply
ExpiryAIOutcomes == {"throw", "True", "False", "str", "None"}

\* VersionManager.check_document_expiration_by_ai -> is_expired, as Python
\* tests it at line 611, and whether the AI was called
check_document_expiration_by_ai(has_client, ai) ==
    IF ~has_client THEN [is_expired |-> FALSE, called |-> FALSE]
    ELSE IF ai = "throw" THEN [is_expired |-> FALSE, called |-> TRUE]
    ELSE [is_expired |-> Truthy(ai), called |-> TRUE]

\* line 601: the length of the preview asked for
ExpiryPreviewLength == 600
\* line 545: limit
ExpiryLimit == 50

\* download_and_extract_document_preview(file_info, preview_length): the
\* length of the preview; content is the length of the parsed text, or
\* NoScore when the download, the decryption or the parse failed (None)
download_and_extract_document_preview(content, preview_length) ==
    IF content = NoScore THEN 0 ELSE Min(content, preview_length)
PreviewContents ==
    {NoScore, 0, ExpiryPreviewLength, ExpiryPreviewLength + 1}

\* the rows the expiration sweep is run on
ExpiryFiles == {"e1", "e2"}
ExpiryRow(category, status, document_id, stored) ==
    [SweptRow(<<"A">>, category, status, document_id)
        EXCEPT !.ai_analysis_result = stored]
PastDate == StoredResult("object", "object", DateIn("%Y-%m-%d", 1))
\* e1: a published branch document
ExpiryRows1 ==
    {ExpiryRow("BRANCH_ISSUE", COMPLETED, 1, s) : s \in StoredResults}
\* e2: another one; a headquarters document; a document that failed
\* after it was published
ExpiryRows2 ==
    {ExpiryRow("PUBLIC_STANDARD", COMPLETED, 2, s) : s \in StoredResults} \cup
    {ExpiryRow("HEADQUARTERS_ISSUE", COMPLETED, 2, PastDate),
     ExpiryRow("BRANCH_ISSUE", FAILED, 2, PastDate)}

NoExpiryStats == [processed |-> 0, expired_by_metadata |-> 0,
                  expired_by_ai |-> 0, deleted |-> 0, errors |-> 0,
                  details |-> 0]

InitExpiry ==
    /\ \E r1 \in ExpiryRows1, r2 \in ExpiryRows2 :
        /\ files = [f \in ExpiryFiles |-> IF f = "e1" THEN r1 ELSE r2]
        /\ kb = [live |-> {[id |-> files[f].document_id, file_id |-> f] :
                              f \in ExpiryFiles},
                 next_id |-> 3]
    /\ dialect \in Dialects
    /\ client \in BOOLEAN
    /\ mapping = EmptyDict
    /\ knowledge_bases = <<"ACTIVE", "ACTIVE">>
    /\ pool = {"w1"}
    /\ logs = EmptyBag
    /\ queue = {}
    /\ deliveries = 0
    /\ pc = [w \in Workers |-> "idle"]
    /\ task = [w \in Workers |-> NoTask]
    /\ sess = [w \in Workers |-> NoSession]
    /\ loc = [w \in Workers |-> NoLocals]
    /\ ret = [w \in Workers |-> NoReturn]
    /\ wrote = [w \in Workers |-> <<>>]
    /\ published = {}
    /\ call = NoCall
    /\ sweep = [NoSweep EXCEPT !.stats = NoExpiryStats]

\* clean_expired_documents(limit) starts, with the default limit or with a
\* limit of one document: lines 567-571, the batch of COMPLETED rows of the
\* other categories with a document_id, at most limit of them
StartExpiry ==
    /\ sweep.pc = "idle"
    /\ sweep.runs < MaxSweeps
    /\ LET found == {f \in DOMAIN files :
                        /\ files[f].business_category # "HEADQUARTERS_ISSUE"
                        /\ files[f].processing_status = COMPLETED
                        /\ files[f].document_id # NoDocumentId}
       IN  \E limit \in {1, ExpiryLimit}, batch \in SUBSET found :
              /\ Cardinality(batch) = Min(limit, Cardinality(found))
              /\ sweep' = [NoSweep EXCEPT !.pc = "L575", !.runs = sweep.runs,
                                          !.limit = limit,
                                          !.batch = batch, !.size = Cardinality(batch),
                                          !.stats = NoExpiryStats]
    /\ UNCHANGED <<files, logs, queue, kb, sweep_frame>>

\* the sweep goes on to the next document: the locals of the item
NextExpiryItem(f, now, stats) ==
    [sweep EXCEPT !.batch = sweep.batch \ {f}, !.cur = f, !.now = now,
                  !.stats = stats, !.info = NoInfo, !.expired_by = "",
                  !.ai_calls = 0, !.preview = 0, !.no_preview = FALSE,
                  !.ai_answer = "",
                  !.last_delete = NoSweep.last_delete]

\* lines 575-611: one document of the batch, up to the verdict
ExpiryItem ==
    /\ sweep.pc = "L575"
    /\ \E f \in sweep.batch, now \in Clock, content \in PreviewContents,
          ai \in ExpiryAIOutcomes :
        LET processed == Count(sweep.stats, "processed")
            m == check_document_expiration_by_metadata(files[f], now)
            preview == download_and_extract_document_preview(
                           content, ExpiryPreviewLength)
            v == check_document_expiration_by_ai(client, ai)
        IN  /\ ~Before(now, sweep.now)
            /\ IF m.is_expired
               THEN sweep' = [NextExpiryItem(f, now,
                                 Count(processed, "expired_by_metadata"))
                                EXCEPT !.info = m.info,
                                       !.expired_by = "metadata",
                                       !.pc = "L586"]
               ELSE IF files[f].ai_analysis_result.text # "null"
                       /\ m.info # NoInfo
               THEN sweep' = [NextExpiryItem(f, now, processed)
                                EXCEPT !.info = m.info]
               ELSE IF preview = 0
               THEN sweep' = [NextExpiryItem(f, now,
                                 Count(processed, "errors"))
                                EXCEPT !.no_preview = TRUE]
               ELSE IF v.is_expired
               THEN sweep' = [NextExpiryItem(f, now,
                                 Count(processed, "expired_by_ai"))
                                EXCEPT !.preview = preview,
                                       !.ai_calls = IF v.called THEN 1 ELSE 0,
                                       !.ai_answer = IF v.called THEN ai ELSE "",
                                       !.expired_by = "ai",
                                       !.pc = "L615"]
               ELSE sweep' = [NextExpiryItem(f, now, processed)
                                EXCEPT !.preview = preview,
                                       !.ai_calls = IF v.called THEN 1 ELSE 0,
                                       !.ai_answer = IF v.called THEN ai ELSE ""]
    /\ UNCHANGED <<files, logs, queue, kb, sweep_frame>>

\* mutant: a delete is counted whether or not it was done
ExpiryDelete_counting ==
    /\ sweep.pc \in {"L586", "L615"}
    /\ \E outcome \in {"success", "failure"} :
        LET d == delete_document_from_dify(files[sweep.cur], outcome,
                                           sweep.aborted)
        IN  /\ files' = [files EXCEPT ![sweep.cur] = d.row]
            /\ kb' = IF d.outcome = "success"
                     THEN [kb EXCEPT !.live =
                             {x \in kb.live :
                                x.id # files[sweep.cur].document_id}]
                     ELSE kb
            /\ sweep' = [sweep EXCEPT
                  !.pc = "L575",
                  !.aborted = d.aborted,
                  !.last_delete = [file |-> sweep.cur, outcome |-> d.outcome,
                                   done |-> d.done],
                  !.stats = Count(Count(sweep.stats, "deleted"), "details")]
    /\ UNCHANGED <<logs, queue, sweep_frame>>

\* lines 586-592, 615-621: the expired document is deleted from the
\* knowledge base; a delete that answers True is counted and listed
ExpiryDelete ==
    /\ sweep.pc \in {"L586", "L615"}
    /\ \E outcome \in {"success", "failure"} :
        LET d == delete_document_from_dify(files[sweep.cur], outcome,
                                           sweep.aborted)
        IN  /\ files' = [files EXCEPT ![sweep.cur] = d.row]
            /\ kb' = IF d.outcome = "success"
                     THEN [kb EXCEPT !.live =
                             {x \in kb.live :
                                x.id # files[sweep.cur].document_id}]
                     ELSE kb
            /\ sweep' = [sweep EXCEPT
                  !.pc = "L575",
                  !.aborted = d.aborted,
                  !.last_delete = [file |-> sweep.cur, outcome |-> d.outcome,
                                   done |-> d.done],
                  !.stats = IF d.done
                            THEN Count(Count(sweep.stats, "deleted"), "details")
                            ELSE sweep.stats]
    /\ UNCHANGED <<logs, queue, sweep_frame>>

\* line 628: the batch is through, the statistics are returned
ExpiryReturn ==
    /\ sweep.pc = "L575"
    /\ sweep.batch = {}
    /\ sweep' = [sweep EXCEPT !.pc = "idle", !.runs = @ + 1]
    /\ UNCHANGED <<files, logs, queue, kb, sweep_frame>>

NextExpiry ==
    \/ StartExpiry
    \/ ExpiryItem
    \/ ExpiryDelete
    \/ ExpiryReturn

SpecExpiry == InitExpiry /\ [][NextExpiry]_vars

\* both sweeps, one after the other in any order, over either table
InitSweeps == InitSweep \/ InitExpiry
NextSweeps == NextSweep \/ NextExpiry
SpecSweeps == InitSweeps /\ [][NextSweeps]_vars

\* ================================================================ claims
\* the worker runs process_document and is about to evaluate the guard on
\* a file id that has no row or whose row is not PENDING
GuardWillRefuse(w) ==
    /\ pc[w] = "L113"
    /\ \/ task[w].file_id \notin DOMAIN files
       \/ files[task[w].file_id].processing_status # PENDING

\* C1: process(file_id) on a document that is not PENDING, or on an id
\* without a record, is a no-op: the guard step ends the invocation with a
\* failure result, no field of any record changes, no log row is added, and
\* no retrieval, decryption, parser, AI or knowledge-base call is made (the
\* invocation has written and called nothing, and schedules no retry).
C1_NotPendingIsNoOp ==
    [][\A w \in Workers :
          (GuardWillRefuse(w) /\ pc'[w] # pc[w]) =>
              /\ pc'[w] = "idle"
              /\ ret'[w] = Returned(FALSE, "", "not_processable")
              /\ wrote[w] = <<>>
              /\ files' = files
              /\ logs' = logs
              /\ kb' = kb
              /\ published' = published
              /\ queue' = queue]_vars

\* C1 witness: process was refused on a FAILED row, and on an id without row
C1_Witness ==
    /\ ret["w1"] = Returned(FALSE, "", "not_processable")
    /\ files["f1"].processing_status = FAILED
    /\ deliveries = 2

\* the worker runs process_document on f and has just passed the guard
PassedGuard(w, f) ==
    /\ task[w].kind = "process"
    /\ task[w].file_id = f
    /\ pc[w] \in {"L119", "L144"}

\* C2: when the same file id is delivered to two workers while the
\* document is PENDING, at most one of the two invocations gets past the
\* eligibility guard.
C2_AtMostOnePassesGuard ==
    \A f \in Files :
        files[f].processing_status = PENDING =>
            Cardinality({w \in Workers : PassedGuard(w, f)}) <= 1

\* the processing_status values the running task has written, in order
StatusesWritten(w) ==
    LET s == SelectSeq(wrote[w], LAMBDA x : x.op = "status")
    IN  [i \in 1..Len(s) |-> s[i].status]
LastStatusWritten(w) == StatusesWritten(w)[Len(StatusesWritten(w))]

\* the stage statuses in pipeline order; PENDING is where the run starts
StageOrder == <<DOWNLOADING, DECRYPTING, PARSING, ANALYZING>>

\* s is the first k stage statuses followed by writes of one terminal value
StagesThenTerminal(s, k) ==
    /\ Len(s) >= k
    /\ SubSeq(s, 1, k) = SubSeq(StageOrder, 1, k)
    /\ \E t \in Terminal : \A i \in (k + 1)..Len(s) : s[i] = t

\* the process invocation of w is at its last step: its next step returns
\* or hands the task back for a retry
AtLastStep(w) ==
    \/ pc[w] \in {"L346", "L372"}
    \/ pc[w] = "L161" /\ ~loc[w].raising

\* C3: the processing_status values one process invocation writes are,
\* starting from PENDING, the stage values DOWNLOADING, DECRYPTING,
\* PARSING, ANALYZING in that order without gaps up to some stage, followed
\* by one value of {AWAITING_APPROVAL, COMPLETED, FAILED, SKIPPED}; nothing
\* earlier is written after a later value, and a completed invocation has
\* written its terminal value.  (The one terminal value may be written more
\* than once: a stage that raises writes FAILED, and the outer handler
\* writes FAILED again.)
C3_StatusOrder ==
    \A w \in Workers :
        task[w].kind = "process" =>
            /\ \E k \in 0..Len(StageOrder) :
                  /\ StagesThenTerminal(StatusesWritten(w), k)
                  /\ Len(StatusesWritten(w)) > k => k >= 1
            /\ AtLastStep(w) => LastStatusWritten(w) \in Terminal

\* C3 witness: a run whose decrypt stage raised is at its last step
C3_Witness ==
    /\ pc["w1"] = "L372"
    /\ StatusesWritten("w1") = <<DOWNLOADING, DECRYPTING, FAILED, FAILED>>

\* the run of w has made its routing decision and written its outcome
Routed(w) ==
    /\ task[w].kind = "process"
    /\ pc[w] = "L346"
    /\ loc[w].stage = "analyze"

\* the outcome of the run of w is the one the routing rule gives for the
\* thresholds min and auto; a publish that did not succeed ends in FAILED
RoutedBy(w, min, auto) ==
    LET r == loc[w].analysis_result
        suitable == r.suitable_for_kb = "True"
        confidence == r.confidence_score
    IN  IF suitable /\ confidence >= auto
        THEN \/ /\ LastStatusWritten(w) = COMPLETED
                /\ "document_id" \in DOMAIN sess[w].dirty
                /\ \E d \in kb.live : d.id = sess[w].dirty["document_id"]
                                       /\ d.file_id = task[w].file_id
             \/ /\ LastStatusWritten(w) = FAILED
                /\ "document_id" \notin DOMAIN sess[w].dirty
        ELSE IF suitable /\ min <= confidence /\ confidence < auto
             THEN LastStatusWritten(w) = AWAITING_APPROVAL
             ELSE LastStatusWritten(w) = SKIPPED

\* C4: a run that reaches the routing decision for a category with an
\* active mapping is routed by that mapping's min_confidence_score and
\* auto_approve_threshold: suitable and confidence >= auto and publish
\* succeeded -> COMPLETED with the document id stored; suitable and
\* min <= confidence < auto -> AWAITING_APPROVAL; otherwise SKIPPED.
C4_RoutedByCategoryThresholds ==
    \A w \in Workers :
        (Routed(w) /\ mapping # EmptyDict) =>
            RoutedBy(w, mapping.min_confidence_score,
                     mapping.auto_approve_threshold)

\* C5: without an active mapping the routing decision uses
\* auto_approve_threshold = 80 and min_confidence = 40, whether the result
\* came from the AI or from the rules.
C5_DefaultThresholds ==
    \A w \in Workers :
        (Routed(w) /\ mapping = EmptyDict) =>
            RoutedBy(w, DefaultMinConfidence, DefaultAutoApproveThreshold)

\* C6: the publish capability is never invoked for a record whose
\* document_id is already set, and no record has more than one live
\* knowledge-base document.
C6_NoSecondPublish ==
    /\ \A p \in published : p.document_id = NoDocumentId
    /\ \A f \in Files : Cardinality({d \in kb.live : d.file_id = f}) <= 1

\* C7: analyze returns, for every input (missing or invalid category, no
\* AI client, an AI call that throws, a reply that is no JSON or whose
\* fields are missing or out of range), a result whose confidence_score is
\* in [0,100] and whose suitable_for_kb is a boolean.
C7_ResultWellFormed ==
    call.made =>
        /\ call.result.confidence_score \in 0..100
        /\ call.result.suitable_for_kb \in PyBool

\* the AI was asked and answered a confidence_score below the minimum of
\* the category (the mapping's min_confidence_score, 70 without a mapping)
AIConfidenceBelowMin ==
    /\ call.made
    /\ call.category \notin {"missing", "invalid"}
    /\ get_target_knowledge_base(mapping, knowledge_bases, dialect) # QueryRaised
    /\ client
    /\ call.ai.kind = "json"
    /\ call.ai.ck = "int"
    /\ call.ai.conf < get_document_processor(mapping).min_confidence

\* C8: whenever the AI's confidence_score is below the category's
\* min_confidence_score, the result analyze returns has suitable_for_kb =
\* false, whatever suitability the AI reported.
C8_LowConfidenceUnsuitable ==
    AIConfidenceBelowMin => call.result.suitable_for_kb = "False"

\* the set of things the running task of w has done
Done(w) == {wrote[w][i] : i \in 1..Len(wrote[w])}

\* C9: a failure of the analysis stage never sets FAILED and never aborts
\* the run.  The analysis step always leaves a complete result (a boolean
\* suitability, a confidence in [0,100]) and goes on to the routing
\* decision made from it, without touching the record; a thrown analyzer
\* call leaves the zero-confidence "failed" result; and after the analysis
\* stage FAILED is written only for a publish call that was made.
C9_AnalysisFailureContinues ==
    [][\A w \in Workers :
          /\ (pc[w] = "L250" /\ pc'[w] # pc[w]) =>
                /\ pc'[w] \in {"L300", "L336", "L342"}
                /\ pc'[w] = Route(loc'[w].analysis_result)
                /\ loc'[w].analysis_result.suitable_for_kb \in PyBool
                /\ loc'[w].analysis_result.confidence_score \in 0..100
                /\ loc'[w].analysis_result.analysis_method \in
                      {"ai", "rule_based", "failed"}
                /\ (LogWrite("analyze", "failed") \in Done(w)') =>
                      /\ loc'[w].analysis_result = FailedAnalysis
                      /\ pc'[w] = "L342"
                /\ files' = files
          /\ (/\ task[w].kind = "process"
              /\ loc[w].stage = "analyze"
              /\ Len(StatusesWritten(w)') > Len(StatusesWritten(w))
              /\ LastStatusWritten(w)' = FAILED) =>
                CallMade("add_to_kb") \in Done(w)]_vars

\* C9 witness: the analyzer call threw and the run is at the routing
\* outcome SKIPPED, the record still ANALYZING
C9_Witness ==
    /\ pc["w1"] = "L342"
    /\ loc["w1"].analysis_result = FailedAnalysis
    /\ LogWrite("analyze", "failed") \in Done("w1")
    /\ files["f1"].processing_status = ANALYZING

\* the exception of a failed stage has left the stage handler of w
Raised(w, stage) ==
    /\ task[w].kind = "process"
    /\ pc[w] = "L363"
    /\ loc[w].stage = stage

\* the last n things the running task of w has done
LastDone(w, n) ==
    IF Len(wrote[w]) < n THEN <<>>
    ELSE SubSeq(wrote[w], Len(wrote[w]) - n + 1, Len(wrote[w]))

\* C10: when the download or the decrypt stage raises, the failure is
\* recorded before the exception leaves the stage: by then the invocation
\* has appended the stage's failed log row, written FAILED with the error
\* message and committed the error; the record carries last_error and a
\* counted error, and has status FAILED with the stage's message (unless an
\* operator has meanwhile reset the FAILED row to PENDING).
C10_FailureRecordedBeforeRaise ==
    \A w \in Workers : \A stage \in {"download", "decrypt"} :
        Raised(w, stage) =>
            /\ LastDone(w, 4) = <<CallMade(stage), LogWrite(stage, "failed"),
                                  StatusWrite(FAILED), CommitMade>>
            /\ BagIn([file_id |-> task[w].file_id, step |-> stage,
                      status |-> "failed", has_duration |-> TRUE], logs)
            /\ files[task[w].file_id].last_error = stage
            /\ files[task[w].file_id].error_count >= 1
            /\ \/ /\ files[task[w].file_id].processing_status = FAILED
                  /\ files[task[w].file_id].processing_message = stage
               \/ /\ files[task[w].file_id].processing_status = PENDING
                  /\ files[task[w].file_id].processing_message = "manual"

\* C10 witness: the decrypt stage raised, the row is FAILED with its error
C10_Witness ==
    /\ Raised("w1", "decrypt")
    /\ files["f1"].processing_status = FAILED
    /\ files["f1"].last_error = "decrypt"
    /\ files["f1"].processing_message = "decrypt"

\* the steps whose failed log row stands for a failure that moves the
\* document to FAILED
FailingSteps == {"download", "decrypt", "parse", "add_to_kb", "manual_approve"}

\* the number of failures of file f that were logged
FailuresLogged(f) ==
    LET rows == {r \in BagToSet(logs) : /\ r.file_id = f
                                        /\ r.status = "failed"
                                        /\ r.step \in FailingSteps}
        Sum[S \in SUBSET rows] ==
            IF S = {} THEN 0
            ELSE LET r == CHOOSE x \in S : TRUE
                 IN  CopiesIn(r, logs) + Sum[S \ {r}]
    IN  Sum[rows]

\* C11: error_count never decreases, and every failure that moves a
\* document to FAILED adds exactly one to it and leaves its message in
\* last_error: whenever no task is running, error_count is the number of
\* failures logged for the document, and last_error names the stage of a
\* failure once there was one.
C11_ErrorCountedOncePerFailure ==
    [][\A f \in Files :
          /\ files'[f].error_count >= files[f].error_count
          /\ (\A w \in Workers : pc'[w] = "idle") =>
                /\ files'[f].error_count = FailuresLogged(f)'
                /\ FailuresLogged(f)' > 0 =>
                      files'[f].last_error \in FailingSteps]_vars

\* C12: when the download throws on the first run, the run is tried again
\* (a retry that is delivered passes the guard and downloads again), and the
\* failed download log row, with its duration, is written only by the
\* attempt that used up the last retry, and only once.
C12_RetriedThenLoggedOnce ==
    \A w \in Workers :
        /\ (/\ task[w].kind = "process"
            /\ LogWrite("download", "failed") \in Done(w)) =>
              /\ task[w].retries = max_retries
              /\ CopiesIn([file_id |-> task[w].file_id, step |-> "download",
                           status |-> "failed", has_duration |-> TRUE], logs) = 1
        /\ (/\ task[w].kind = "process"
            /\ task[w].retries > 0
            /\ pc[w] = "L113") =>
              can_process_file(files, task[w].file_id)

\* C14: a retry is requested only when the download or the decrypt stage
\* threw; a failure of the parse stage, structured or thrown, ends the run
\* with FAILED written and a plain failure returned.
C14_RetryOnlyForDownloadDecrypt ==
    [][\A w \in Workers :
          /\ (task[w].kind = "process" /\ ret'[w].kind = "retry") =>
                loc[w].stage \in {"download", "decrypt"}
          /\ (/\ task[w].kind = "process"
              /\ loc[w].stage = "parse"
              /\ LogWrite("parse", "failed") \in Done(w)
              /\ pc'[w] = "idle") =>
                /\ ret'[w].kind = "return"
                /\ ~ret'[w].success
                /\ LastStatusWritten(w) = FAILED
                /\ queue' = queue]_vars

\* the publish call of the running process task of w has failed and the
\* run is at its final commit
PublishFailed(w) ==
    /\ task[w].kind = "process"
    /\ pc[w] = "L346"
    /\ CallMade("add_to_kb") \in Done(w)
    /\ LogWrite("add_to_kb", "success") \notin Done(w)

KbCalls(w) == {x \in Done(w) : x.op = "call" /\ x.step = "add_to_kb"}

Blocked == {FAILED, SKIPPED, AWAITING_APPROVAL} \cup InFlight

\* C13: a record that is FAILED, SKIPPED, AWAITING_APPROVAL or left in an
\* in-flight status is not changed by any automatic activity: no step of
\* the batch scan or of a sweep changes such a record.
C13_BlockedUntilOperator ==
    [][\A f \in DOMAIN files :
          files[f].processing_status \in Blocked => files'[f] = files[f]]_vars

\* the sweep is about to delete the next old document, whose record exists
DeleteStep ==
    /\ sweep.pc = "L377"
    /\ sweep.old # <<>>
    /\ ~sweep.aborted
    /\ Head(sweep.old) \in DOMAIN files

\* C17: delete_document_from_dify on a record: when the delete capability
\* reports success, the record's document_id becomes null, its status
\* SKIPPED, and the delete is reported as done; when the record has no
\* document_id, the target lookup raises or the capability reports failure,
\* the record, the other records and the knowledge base are unchanged and
\* the delete is reported as not done.
C17_DeleteMarksOnlyOnSuccess ==
    [][DeleteStep =>
          LET f == Head(sweep.old)
              d == sweep'.last_delete
          IN  /\ d.file = f
              /\ d.outcome \in {"success", "failure", "raised", "no_document_id"}
              /\ files[f].document_id = NoDocumentId => d.outcome = "no_document_id"
              /\ \A g \in DOMAIN files \ {f} : files'[g] = files[g]
              /\ IF d.outcome = "success"
                 THEN /\ files[f].document_id # NoDocumentId
                      /\ files'[f].document_id = NoDocumentId
                      /\ files'[f].processing_status = SKIPPED
                      /\ d.done
                      /\ sweep'.stats.deleted = sweep.stats.deleted + 1
                 ELSE /\ files'[f] = files[f]
                      /\ kb' = kb
                      /\ ~d.done
                      /\ sweep'.stats.deleted = sweep.stats.deleted]_vars

\* C17 witness: a delete that succeeded: the record is SKIPPED without
\* document_id and counted as deleted
C17_Witness ==
    /\ sweep.last_delete.outcome = "success"
    /\ sweep.last_delete.file = "d2"
    /\ files["d2"].processing_status = SKIPPED
    /\ files["d2"].document_id = NoDocumentId
    /\ sweep.stats.deleted = 1

\* the sweep takes the next document of its batch
ItemStep == sweep.pc = "L325" /\ sweep'.batch # sweep.batch

\* C18: a candidate group with fewer than 2 previews never reaches the AI
\* comparison: the item ends without a comparison, without an AI call and
\* without an old document to delete, no record and no knowledge-base
\* document changes; the delete loop is only ever entered after a
\* comparison over at least 2 previews.
C18_NoComparisonBelowTwoPreviews ==
    [][/\ (ItemStep /\ Cardinality(sweep'.previews) < 2) =>
              /\ sweep'.compared = 0
              /\ sweep'.ai_calls = 0
              /\ sweep'.old = <<>>
              /\ sweep'.pc = "L325"
              /\ sweep'.stats.deleted = sweep.stats.deleted
              /\ files' = files
              /\ kb' = kb
       /\ sweep.pc = "L377" =>
              /\ Cardinality(sweep.previews) >= 2
              /\ sweep.compared = 1]_vars

\* C18 witness: a group of two candidates of which one preview was
\* obtained; the item is over and nothing was compared
C18_Witness ==
    /\ sweep.pc = "L325"
    /\ Cardinality(sweep.group) >= 2
    /\ Cardinality(sweep.previews) = 1
    /\ sweep.compared = 0
    /\ sweep.stats.duplicates_found = 1

\* the file name holds the title as a substring
Contains(filename, title) ==
    \E k \in 0..(Len(filename) - Len(title)) :
        SubSeq(filename, k + 1, k + Len(title)) = title

\* C19: for a batch document with a revision keyword and a bracketed
\* title, the item extracts the first title, collects every COMPLETED
\* headquarters record with a document_id whose file name contains the
\* title (the document itself when it still is one), and, with at least 2
\* members and at least 2 previews, makes one comparison: one AI call
\* whose prompt holds every preview obtained.
C19_GroupComparedOnce ==
    [][ItemStep =>
          LET f == sweep'.cur
              name == files[f].imagefilename
          IN  (/\ check_revision_keywords(name)
               /\ extract_title_from_brackets(name) # <<>>) =>
                /\ sweep'.title = extract_title_from_brackets(name)
                /\ \A g \in DOMAIN files :
                      (/\ files[g].business_category = "HEADQUARTERS_ISSUE"
                       /\ files[g].processing_status = COMPLETED
                       /\ files[g].document_id # NoDocumentId
                       /\ Contains(files[g].imagefilename, sweep'.title))
                         => g \in sweep'.group
                /\ \A g \in sweep'.group :
                      /\ files[g].business_category = "HEADQUARTERS_ISSUE"
                      /\ files[g].processing_status = COMPLETED
                      /\ files[g].document_id # NoDocumentId
                /\ (Cardinality(sweep'.group) >= 2
                       /\ Cardinality(sweep'.previews) >= 2) =>
                      /\ sweep'.compared = 1
                      /\ client => /\ sweep'.ai_calls = 1
                                   /\ sweep'.prompt = sweep'.previews]_vars

\* C20: an id of old_document_ids that is no member of the candidate group
\* is a no-op: the delete loop of a group changes no record outside the
\* group and deletes no knowledge-base document of such a record.
C20_OnlyGroupMembersDeleted ==
    [][sweep.pc = "L377" =>
          \A f \in DOMAIN files \ sweep.group :
              /\ files'[f] = files[f]
              /\ {x \in kb'.live : x.file_id = f} = {x \in kb.live : x.file_id = f}]_vars

\* the expiration sweep takes up document f
ExpiryTakes(f) ==
    /\ sweep.pc = "L575"
    /\ f \in sweep.batch
    /\ sweep'.cur = f
    /\ sweep'.batch = sweep.batch \ {f}

\* the stored ai_metadata.expiration_date of f is a permanence value
IsPermanent(f) ==
    /\ files[f].ai_analysis_result.text = "object"
    /\ files[f].ai_analysis_result.ai_metadata = "object"
    /\ files[f].ai_analysis_result.expiration_date.text \in PermanentValues

\* C21: in the expiration sweep a document whose stored expiration_date is
\* a permanence value is found not expired by the metadata check, whatever
\* the clock says: the sweep asks for no preview and makes no AI call for
\* it, goes on to the next document without a delete, and no step of the
\* sweep changes its row or takes its document from the knowledge base.
C21_PermanentNeverExpired ==
    [][\A f \in ExpiryFiles :
        IsPermanent(f) =>
          /\ files'[f] = files[f]
          /\ {x \in kb'.live : x.file_id = f} = {x \in kb.live : x.file_id = f}
          /\ ExpiryTakes(f) =>
               /\ sweep'.expired_by = ""
               /\ sweep'.info = files[f].ai_analysis_result.expiration_date
               /\ sweep'.ai_calls = 0
               /\ sweep'.preview = 0 /\ ~sweep'.no_preview
               /\ sweep'.pc = "L575"
               /\ sweep'.stats = Count(sweep.stats, "processed")]_vars

\* the sweep has gone past a document with a permanence value, at a clock
\* reading after midnight, with an AI client at hand
C21_Witness ==
    /\ sweep.cur \in ExpiryFiles
    /\ IsPermanent(sweep.cur)
    /\ sweep.pc = "L575"
    /\ sweep.now.tick = 1
    /\ client
    /\ files[sweep.cur].processing_status = COMPLETED

\* the stored ai_metadata.expiration_date of f is a date written in one
\* of the accepted formats
HasParsedDate(f) ==
    /\ files[f].ai_analysis_result.text = "object"
    /\ files[f].ai_analysis_result.ai_metadata = "object"
    /\ files[f].ai_analysis_result.expiration_date.text = "date"
    /\ files[f].ai_analysis_result.expiration_date.fmt \in date_formats

\* the midnight the stored date of f names
ParsedDate(f) ==
    [day |-> files[f].ai_analysis_result.expiration_date.day, tick |-> 0]

\* what C22 asks of one step of the sweep
ExpiredByMetadataStep ==
    /\ \A f \in ExpiryFiles :
         (HasParsedDate(f) /\ ExpiryTakes(f)) =>
           /\ sweep'.ai_calls = 0 /\ sweep'.preview = 0
           /\ IF Before(ParsedDate(f), sweep'.now)
              THEN /\ sweep'.expired_by = "metadata"
                   /\ sweep'.pc = "L586"
                   /\ sweep'.stats =
                        Count(Count(sweep.stats, "processed"),
                              "expired_by_metadata")
              ELSE /\ sweep'.expired_by = ""
                   /\ sweep'.pc = "L575"
    /\ sweep.pc = "L586" =>
         /\ sweep'.last_delete.file = sweep.cur
         /\ sweep'.last_delete.outcome \in {"success", "failure"}
         /\ sweep'.last_delete.outcome = "success" =>
              /\ \A x \in kb'.live : x.file_id # sweep.cur
              /\ sweep'.stats.deleted = sweep.stats.deleted + 1
    /\ \A f \in ExpiryFiles :
         (HasParsedDate(f) /\ \A c \in Clock : ~Before(ParsedDate(f), c)) =>
           /\ files'[f] = files[f]
           /\ {x \in kb'.live : x.file_id = f}
                = {x \in kb.live : x.file_id = f}

\* C22: in the expiration sweep a document whose stored expiration_date
\* parses to a date strictly before the clock reading is counted in
\* expired_by_metadata without a preview or an AI call and its document is
\* then deleted through the delete capability of the knowledge base (the
\* call is made; when it succeeds the document is gone and counted in
\* deleted); a date at or after the clock reading leaves the row and the
\* document alone and makes no AI call.
C22_ExpiredByMetadataDeleted == [][ExpiredByMetadataStep]_vars

\* f has no usable metadata date: no analysis result, no expiration_date
\* in it, or one that is neither a permanence value nor a date in an
\* accepted format
NoUsableDate(f) == ~IsPermanent(f) /\ ~HasParsedDate(f)

\* what C23 asks of one step of the sweep
JudgedByAIStep ==
    /\ \A f \in ExpiryFiles :
         (NoUsableDate(f) /\ ExpiryTakes(f)) =>
           \* the preview is asked for, and is no longer than 600 characters
           /\ sweep'.preview > 0 \/ sweep'.no_preview
           /\ sweep'.preview <= ExpiryPreviewLength
           \* with a preview and a client the AI is asked, and its answer
           \* decides
           /\ (sweep'.preview > 0 /\ client) =>
                /\ sweep'.ai_calls = 1
                /\ sweep'.ai_answer = "True" => sweep'.pc = "L615"
                /\ sweep'.ai_answer = "False" => sweep'.pc = "L575"
           /\ sweep'.pc = "L615" => sweep'.ai_answer # ""
    /\ sweep.pc = "L615" =>
         /\ sweep'.last_delete.file = sweep.cur
         /\ sweep'.last_delete.outcome \in {"success", "failure"}
         /\ sweep'.last_delete.outcome = "success" =>
              \A x \in kb'.live : x.file_id # sweep.cur
    /\ \A f \in ExpiryFiles :
         (NoUsableDate(f) /\ files'[f] # files[f]) =>
           sweep.pc = "L615" /\ sweep.cur = f

\* C23: in the expiration sweep a document that has no usable metadata
\* date (no analysis result, no expiration_date, or an expiration_date
\* that is neither a permanence value nor a date in an accepted format)
\* has a preview of at most 600 characters taken and, given the preview
\* and an AI client, is judged by the AI; it is handed to the delete
\* capability when the AI answers expired, and is left alone when the AI
\* answers not expired.
C23_NoUsableDateJudgedByAI == [][JudgedByAIStep]_vars

\* a sweep is under way
SweepRunning == sweep.pc # "idle"

\* what C24 asks of one step of a sweep
ItemErrorStep ==
    \* a missing preview, a comparison without an answer and a query that
    \* raises are counted, and the sweep stays in its loop
    /\ (sweep.pc = "L575" /\ sweep'.batch # sweep.batch
          /\ sweep'.no_preview) =>
         /\ sweep'.stats.errors = sweep.stats.errors + 1
         /\ sweep'.pc = "L575"
    /\ (sweep.pc = "L325" /\ sweep'.batch # sweep.batch
          /\ sweep'.pc = "L325" /\ sweep'.compared = 1) =>
         sweep'.stats.errors = sweep.stats.errors + 1
    /\ (sweep.aborted /\ ((sweep.pc = "L325" /\ sweep'.batch # sweep.batch
                              /\ sweep'.title # <<>>)
                          \/ (sweep.pc = "L377" /\ sweep.old # <<>>))) =>
         /\ sweep'.stats.errors = sweep.stats.errors + 1
         /\ sweep'.pc = "L325"
    \* a failed AI judgment or delete ends neither the sweep nor the batch
    /\ (sweep.pc = "L575" /\ sweep'.batch # sweep.batch
          /\ sweep'.ai_answer = "throw") =>
         sweep'.pc = "L575"
    /\ (sweep.pc \in {"L377", "L586", "L615"} /\ sweep'.pc # "idle"
          /\ ~sweep'.last_delete.done) =>
         /\ sweep'.pc \in {"L325", "L377", "L575"}
         /\ sweep'.batch = sweep.batch
    \* no step but the return after the last document ends the sweep, and
    \* the statistics it returns are the ones counted
    /\ (SweepRunning /\ sweep'.pc = "idle") =>
         /\ sweep.batch = {}
         /\ sweep'.stats = sweep.stats
    /\ (SweepRunning /\ sweep'.pc # "idle") =>
         /\ sweep'.stats.errors >= sweep.stats.errors
         /\ sweep'.batch \subseteq sweep.batch

NoActiveTarget ==
    /\ mapping = EmptyDict
         \/ knowledge_bases[mapping.knowledge_base_id] # "ACTIVE"
    /\ \A k \in DOMAIN knowledge_bases : knowledge_bases[k] # "ACTIVE"

\* worker w takes a step of a process run
ProcessStepOf(w) == task[w].kind = "process" /\ pc'[w] # pc[w]

\* C25 as stated: when neither an active mapping nor an active default
\* knowledge base exists, the analysis resolves the target to None and a
\* process run makes no publish call and does not set COMPLETED.
C25_NoTargetNoPublish ==
    [][NoActiveTarget =>
        \A w \in Workers :
          ProcessStepOf(w) =>
            /\ pc[w] = "L250" => loc'[w].target_knowledge_base = 0
            /\ published' = published
            /\ \A f \in Files :
                 files'[f].processing_status = COMPLETED =>
                   files[f].processing_status = COMPLETED]_vars

\* C25 amended: when neither an active mapping nor an active default
\* knowledge base exists, the analysis resolves the target to None; a
\* process run whose routing decides to publish then makes the publish
\* call through the default knowledge-base service, and the document
\* becomes COMPLETED when the call succeeds.
C25_NoTargetPublishesByDefault ==
    [][\A w \in Workers :
        ProcessStepOf(w) =>
          /\ (NoActiveTarget /\ pc[w] = "L250") =>
               loc'[w].target_knowledge_base = 0
          /\ (pc[w] = "L300" /\ loc[w].target_knowledge_base = 0) =>
               /\ [file_id |-> task[w].file_id,
                   document_id |-> files[task[w].file_id].document_id,
                   service |-> 0] \in published'
               /\ Len(wrote'[w]) = Len(wrote[w]) + 1
               /\ wrote'[w][Len(wrote'[w])] = CallMade("add_to_kb")
          /\ (pc[w] = "L314" /\ loc[w].target_knowledge_base = 0) =>
               files'[task[w].file_id].processing_status = COMPLETED]_vars

\* without any knowledge base in service a process run has published a
\* document through the default service and made it COMPLETED
C25_Witness ==
    /\ NoActiveTarget
    /\ \E p \in published :
        /\ p.service = 0
        /\ files[p.file_id].processing_status = COMPLETED
        /\ files[p.file_id].document_id # NoDocumentId
        /\ \E d \in kb.live : d.file_id = p.file_id

\* the reply the AI gave without its markdown fence
Unfenced(ai) == [ai EXCEPT !.kind = "json"]

\* C26: a reply of the AI that is a JSON object inside a markdown code
\* fence gives the same analysis result, and the same target, as the same
\* JSON object without the fence.
C26_FencedParsesAsUnfenced ==
    (call.made /\ call.ai.kind = "fenced") =>
        /\ call.result =
             analyze_document_content(call.category, call.inp,
                                      Unfenced(call.ai), client, mapping,
                                      knowledge_bases, dialect)[1]
        /\ call.target_kb =
             analyze_document_content(call.category, call.inp,
                                      Unfenced(call.ai), client, mapping,
                                      knowledge_bases, dialect)[2]

\* the log rows the running task of w has written, in order
LogsWritten(w) == SelectSeq(wrote[w], LAMBDA x : x.op = "log")

\* the place of a step in the pipeline; the routing outcome is one step
StepRank(step) ==
    CASE step = "download" -> 1
      [] step = "decrypt" -> 2
      [] step = "parse" -> 3
      [] step = "analyze" -> 4
      [] step \in {"add_to_kb", "review", "skip"} -> 5
      [] OTHER -> 0

\* C27: the processing log is append-only: every step leaves each row of
\* processing_logs in place and adds one row for each log entry the
\* running task records; and one process attempt writes at most one entry
\* per pipeline step (download, decrypt, parse, analyze, one routing
\* outcome), in that order.
C27_LogAppendOnly ==
    /\ [][/\ logs \sqsubseteq logs'
          /\ \A w \in Workers :
               Len(LogsWritten(w)') > Len(LogsWritten(w)) =>
                 /\ Len(LogsWritten(w)') = Len(LogsWritten(w)) + 1
                 /\ BagCardinality(logs') = BagCardinality(logs) + 1
                 /\ BagIn([file_id |-> task[w].file_id,
                           step |-> LogsWritten(w)'[Len(LogsWritten(w)')].step,
                           status |-> LogsWritten(w)'[Len(LogsWritten(w)')].status,
                           has_duration |-> TRUE], logs')
                    \/ BagIn([file_id |-> task[w].file_id,
                              step |-> LogsWritten(w)'[Len(LogsWritten(w)')].step,
                              status |-> LogsWritten(w)'[Len(LogsWritten(w)')].status,
                              has_duration |-> FALSE], logs')]_vars
    /\ [](\A w \in Workers :
            task[w].kind = "process" =>
              /\ \A i \in 1..Len(LogsWritten(w)) :
                   StepRank(LogsWritten(w)[i].step) >= 1
              /\ \A i, j \in 1..Len(LogsWritten(w)) :
                   i < j => StepRank(LogsWritten(w)[i].step)
                              < StepRank(LogsWritten(w)[j].step))

\* a document is processed a second time after the operator reset it: the
\* log holds the download row of the first attempt twice over, and the
\* running attempt has logged its stages up to the routing outcome
C27_Witness ==
    \E w \in Workers :
        /\ task[w].kind = "process"
        /\ Len(LogsWritten(w)) = 5
        /\ CopiesIn([file_id |-> task[w].file_id, step |-> "download",
                     status |-> "success", has_duration |-> TRUE], logs) = 2

\* the label at which the work of each stage starts, and the status the
\* stage is entered with
StageWork ==
    [L149 |-> DOWNLOADING, L170 |-> DECRYPTING, L199 |-> PARSING,
     L250 |-> ANALYZING]

\* worker w is about to do, or is doing, the work of a stage
AtStageWork(w) == task[w].kind = "process" /\ pc[w] \in DOMAIN StageWork

\* C28: in a process run the status of a stage (DOWNLOADING, then
\* DECRYPTING, PARSING, ANALYZING) is committed before the work of that
\* stage starts: it is the last thing the run did when the work starts, and
\* whoever reads the record while the work of a stage is in progress sees
\* a status other than PENDING.
C28_StatusCommittedBeforeWork ==
    \A w \in Workers :
        AtStageWork(w) =>
            /\ wrote[w] # <<>>
            /\ wrote[w][Len(wrote[w])] = StatusWrite(StageWork[pc[w]])
            /\ files[task[w].file_id].processing_status # PENDING

\* C29: in every committed state of the table a record with status
\* AWAITING_APPROVAL holds its AI outcome: ai_analysis_result is not null,
\* should_add_to_kb is true and ai_confidence_score is the confidence the
\* routing decision of the run was made with.
C29_AwaitingApprovalHasOutcome ==
    \A f \in Files :
        files[f].processing_status = AWAITING_APPROVAL =>
            /\ files[f].ai_analysis_result # "None"
            /\ files[f].should_add_to_kb = "True"
            /\ files[f].ai_confidence_score # NoScore
            /\ \A w \in Workers :
                 (/\ task[w].kind = "process"
                  /\ task[w].file_id = f
                  /\ pc[w] \in {"L337", "L346"}) =>
                    files[f].ai_confidence_score
                       = loc[w].analysis_result.confidence_score

\* C30: in every committed state of the table a COMPLETED record has a
\* document_id, the id of a document of the knowledge base that was
\* created for this record; and a record has a document_id only when a
\* publish for it succeeded and its document was not deleted since.
C30_CompletedHasDocumentId ==
    \A f \in Files :
        /\ files[f].processing_status = COMPLETED =>
             /\ files[f].document_id # NoDocumentId
             /\ \E d \in kb.live : d.id = files[f].document_id /\ d.file_id = f
        /\ files[f].document_id # NoDocumentId =>
             \E d \in kb.live : d.id = files[f].document_id /\ d.file_id = f

\* ------------------------------------------------- termination (C31)
\* The worker does not crash and every external call returns or throws:
\* a task that is running keeps taking its next step.
SpecLive == Init /\ [][Next]_vars /\ \A w \in Workers : WF_vars(ProcessStep(w))

\* a process invocation that got past the guard of line 113 and has not
\* ended yet
RunningProcess(w) ==
    /\ task[w].kind = "process"
    /\ pc[w] \notin {"idle", "L113"}

\* the step with which such an invocation ends (it returns, or raises the
\* Retry of self.retry)
ProcessEnds(w) == RunningProcess(w) /\ pc'[w] = "idle"

\* C31: every process invocation that passes the eligibility guard
\* eventually ends, and when it ends the status it wrote last is one of
\* AWAITING_APPROVAL, COMPLETED, FAILED, SKIPPED and the record carries it
\* (unless an operator has meanwhile reset the row to PENDING); the record
\* is never left in an in-flight status.
C31_ProcessTerminates ==
    /\ \A w \in Workers : RunningProcess(w) ~> (pc[w] = "idle")
    /\ [][\A w \in Workers :
            ProcessEnds(w) =>
                LET f == task[w].file_id
                IN  /\ f \in DOMAIN files'
                    /\ StatusesWritten(w) # <<>>
                    /\ LastStatusWritten(w) \in Terminal
                    /\ files'[f].processing_status \notin InFlight
                    /\ \/ files'[f].processing_status = LastStatusWritten(w)
                       \/ /\ files'[f].processing_status = PENDING
                          /\ files'[f].processing_message = "manual"]_vars

\* C31 witness: a run that passed the guard has returned and left the
\* record AWAITING_APPROVAL
C31_Witness ==
    /\ files["f1"].is_zw
    /\ pc["w1"] = "idle"
    /\ ret["w1"].kind = "return"
    /\ ret["w1"].success
    /\ ret["w1"].status = AWAITING_APPROVAL
    /\ files["f1"].processing_status = AWAITING_APPROVAL

\* C32: only main-text documents are processed: no step of process (or of
\* the batch scan) moves a record with is_zw = false out of PENDING.
C32_OnlyMainTextProcessed ==
    [][\A f \in DOMAIN files :
          (~files[f].is_zw /\ files[f].processing_status = PENDING) =>
              files'[f].processing_status = PENDING]_vars

\* C33: for a category that has an active mapping whose knowledge base is
\* in ACTIVE status, the resolved target is that mapping's knowledge base;
\* the default active knowledge base is used only without such a mapping.
C33_MappedTargetResolved ==
    (/\ call.made
     /\ call.category = "HEADQUARTERS_ISSUE"
     /\ mapping # EmptyDict
     /\ knowledge_bases[mapping.knowledge_base_id] = "ACTIVE")
        => call.target_kb = mapping.knowledge_base_id

\* ------------------------------------ a sweep next to the operator (C34)
\* While the dedup or the expiration sweep runs, the operator route resets
\* rows of the swept table (routes.process_file: any main-text row that is
\* not in flight).
SweptIds == SweepFiles \cup ExpiryFiles
NextSweepRace ==
    \/ StartDedup \/ DedupItem \/ DedupDelete \/ DedupDetails \/ DedupReturn
    \/ NextExpiry
    \/ \E f \in SweptIds : process_file(f)
SpecSweepRace == InitSweeps /\ [][NextSweepRace]_vars

\* a step of a sweep's delete loop (dedup: line 377; expiry: lines 586, 615)
SweepDeleteStep == sweep.pc \in {"L377", "L586", "L615"}

\* record f belongs to the category set of the sweep that is running
InSweepCategories(f) ==
    IF sweep.pc = "L377"
    THEN files[f].business_category = "HEADQUARTERS_ISSUE"
    ELSE files[f].business_category # "HEADQUARTERS_ISSUE"

\* C34: a sweep changes a record only if, at the moment of the change, the
\* record is COMPLETED with a document_id and belongs to the sweep's
\* category set; it never overwrites a PENDING or in-flight record, also
\* when the operator resets records while the sweep runs.
C34_SweepChangesOnlyCompleted ==
    [][SweepDeleteStep =>
          \A f \in DOMAIN files :
              files'[f] # files[f] =>
                  /\ files[f].processing_status = COMPLETED
                  /\ files[f].document_id # NoDocumentId
                  /\ InSweepCategories(f)]_vars

\* the records that are SKIPPED
Skipped(tbl) == {f \in DOMAIN tbl : tbl[f].processing_status = SKIPPED}

\* an expiration sweep is running
ExpiryRunning == sweep.pc \in {"L575", "L586", "L615"}

\* the counters of the expiration sweep, as they stand
ExpiryCountersOrdered ==
    LET stats == sweep.stats
    IN  /\ stats.processed <= sweep.limit
        /\ stats.processed <= sweep.size
        /\ stats.deleted <= stats.expired_by_metadata + stats.expired_by_ai
        /\ stats.expired_by_metadata + stats.expired_by_ai <= stats.processed
        /\ stats.details = stats.deleted

\* C35: at the end of every expiration sweep run with limit L the returned
\* counters satisfy processed <= L and
\* deleted <= expired_by_metadata + expired_by_ai <= processed, and the
\* number of detail entries equals deleted, which is the number of
\* documents the run moved to SKIPPED (every step of the run adds to
\* deleted exactly the number of records it moves to SKIPPED).
C35_ExpiryCounters ==
    /\ []((sweep.pc = "idle" /\ sweep.runs > 0) =>
            (ExpiryCountersOrdered /\ sweep.stats.processed = sweep.size))
    /\ [][ExpiryRunning =>
            /\ sweep'.stats.deleted - sweep.stats.deleted =
                   Cardinality(Skipped(files') \ Skipped(files))
            /\ Skipped(files) \subseteq Skipped(files')
            /\ sweep'.stats.details = sweep'.stats.deleted]_vars

\* C35 witness: a run with limit 1 over two expired documents has returned:
\* one document processed, found expired, deleted and moved to SKIPPED
C35_Witness ==
    /\ sweep.pc = "idle"
    /\ sweep.runs > 0
    /\ sweep.limit = 1
    /\ sweep.stats.processed = 1
    /\ sweep.stats.deleted = 1
    /\ sweep.stats.details = 1
    /\ Cardinality(Skipped(files)) = 1
    /\ Cardinality({f \in DOMAIN files :
                       /\ files[f].processing_status = COMPLETED
                       /\ files[f].business_category # "HEADQUARTERS_ISSUE"}) = 1

\* the analyzer was called and answered with the rule-based fallback
RuleBased ==
    /\ call.made
    /\ call.result.analysis_method = "rule_based"

\* C36: a document whose analysis came from the rule-based fallback is
\* never auto-published: the fallback's confidence_score lies in [10, 60]
\* and the result carries no category thresholds, so the routing decision
\* of process on it is AWAITING_APPROVAL (line 336) or SKIPPED (line 342),
\* never the publish branch of line 300.
C36_RuleBasedNeverPublished ==
    RuleBased =>
        /\ call.result.confidence_score \in 10..60
        /\ "processor_config" \notin DOMAIN call.result
        /\ Route(call.result) \in {"L336", "L342"}
        /\ Route(call.result) = "L336" <=>
               (/\ call.result.suitable_for_kb = "True"
                /\ call.result.confidence_score >= DefaultMinConfidence)

\* C36 witness: with a mapping whose auto_approve_threshold is 80 and no AI
\* client, a long document passes the rules with confidence 50 and is
\* routed to review
C36_Witness ==
    /\ RuleBased
    /\ mapping = HighMapping
    /\ ~client
    /\ call.result.suitable_for_kb = "True"
    /\ call.result.confidence_score = 50
    /\ Route(call.result) = "L336"

\* ------------------------------------------- two reviews at once (C37)
\* The table after a process run has routed f1 to review, and a pool of two
\* workers.  On the first installation of Scenarios the AI found the
\* document suitable with confidence 85; on the fourth (PostgreSQL) the
\* analysis fell back to the rules, which gave confidence 60.
ReviewedFile(method, confidence) ==
    [NewFile(MainTextFile) EXCEPT !.processing_status = AWAITING_APPROVAL,
                                  !.processing_message = "outcome",
                                  !.ai_analysis_result = method,
                                  !.ai_confidence_score = confidence,
                                  !.should_add_to_kb = "True"]
ReviewLogs ==
    SetToBag({[file_id |-> "f1", step |-> s, status |-> "success",
               has_duration |-> TRUE] :
                 s \in {"download", "decrypt", "parse", "analyze"}}
             \cup {[file_id |-> "f1", step |-> "review", status |-> "pending",
                    has_duration |-> FALSE]})
InitReview ==
    /\ \/ /\ files = [f \in Files |-> ReviewedFile("ai", 85)]
          /\ mapping = EmptyDict
          /\ dialect = "sqlite"
       \/ /\ files = [f \in Files |-> ReviewedFile("rule_based", RuleBaseConfidence)]
          /\ mapping = LowMapping
          /\ dialect = "postgresql"
    /\ client = TRUE
    /\ knowledge_bases = ActiveKnowledgeBases
    /\ pool = Workers
    /\ logs = ReviewLogs
    /\ queue = {}
    /\ deliveries = 0
    /\ pc = [w \in Workers |-> "idle"]
    /\ task = [w \in Workers |-> NoTask]
    /\ sess = [w \in Workers |-> NoSession]
    /\ loc = [w \in Workers |-> NoLocals]
    /\ ret = [w \in Workers |-> NoReturn]
    /\ wrote = [w \in Workers |-> <<>>]
    /\ kb = [live |-> {}, next_id |-> 1]
    /\ published = {}
    /\ call = NoCall
    /\ sweep = NoSweep

\* the reviewer's requests and the tasks of the two workers; without an
\* operator reset the row is never PENDING again, so a process task ends at
\* its guard
NextReview ==
    \/ \E f \in FileIds, approved \in BOOLEAN : approve_file(f, approved)
    \/ \E w \in Workers : Deliver(w)
    \/ \E w \in Workers : CanProcessFile(w)
    \/ \E w \in Workers : ApproveStep(w)
SpecReview == InitReview /\ [][NextReview]_vars

\* the workers whose running review of f has made its publish call
ReviewsPublishing(f) ==
    {w \in Workers : /\ task[w].kind = "approve"
                     /\ task[w].file_id = f
                     /\ task[w].approved
                     /\ KbCalls(w) # {}}

\* C37: when approve(file_id, approved = true) for the same
\* AWAITING_APPROVAL document is executed by two workers concurrently, the
\* document is published at most once: at most one of the reviews makes the
\* publish call, and the knowledge base holds at most one document of it.
C37_ApprovedPublishedOnce ==
    \A f \in Files :
        /\ Cardinality(ReviewsPublishing(f)) <= 1
        /\ Cardinality({d \in kb.live : d.file_id = f}) <= 1

\* C38: in the dedup sweep the document the AI names as latest_document_id
\* for a group is never deleted by that group's delete loop, so when the
\* group has been handled at least one of its documents is still COMPLETED
\* with its document_id.
C38_LatestNeverDeleted ==
    [][sweep.pc = "L377" =>
          /\ sweep.latest \in DOMAIN files =>
                 files'[sweep.latest] = files[sweep.latest]
          /\ sweep.old = <<>> =>
                 \E g \in sweep.group :
                     /\ files[g].processing_status = COMPLETED
                     /\ files[g].document_id # NoDocumentId]_vars

\* C39: the success flag of the summary agrees with the outcome: whenever
\* process or approve returns success = true, the document's resulting
\* status is not FAILED.
C39_SuccessIsNotFailed ==
    [][\A w \in Workers :
          (/\ pc[w] # "idle"
           /\ pc'[w] = "idle"
           /\ ret'[w].kind = "return"
           /\ ret'[w].success) =>
              /\ ret'[w].status # FAILED
              /\ files'[task[w].file_id].processing_status # FAILED]_vars

====
